---- MODULE Spec2Model ----
(***************************************************************************)
(* Pantrii recipe-extraction pipeline: the schema normalizer, the          *)
(* extraction orchestrator (geminiVision.ts), the recipe cache             *)
(* (recipeCache.ts), the scan route and the recipe routes that share the   *)
(* Recipe table with the cache.                                            *)
(***************************************************************************)
EXTENDS Integers, Sequences, FiniteSets, TLC

(***************************************************************************)
(* JavaScript / JSON values.  A value is a record tagged by t.  A string   *)
(* is the sequence of its characters; a number v (+ 0.5 when half) covers  *)
(* the integers and the halves, enough to tell 4 from 4.5 and from -2.     *)
(***************************************************************************)
Null == [t |-> "null"]
Undefined == [t |-> "undefined"]
Num(n) == [t |-> "num", v |-> n, half |-> FALSE]
NumHalf(n) == [t |-> "num", v |-> n, half |-> TRUE]
Str(s) == [t |-> "str", s |-> s]
Bool(b) == [t |-> "bool", b |-> b]
Arr(a) == [t |-> "arr", a |-> a]
Obj(o) == [t |-> "obj", o |-> o]

\* typeof x === 'number'
IsNumber(x) == x.t = "num"

\* Array.isArray(x)
IsArray(x) == x.t = "arr"

\* ToBoolean(x): what `x ? a : b`, `x || y` and `!x` test
Truthy(x) ==
  CASE x.t = "null" -> FALSE
    [] x.t = "undefined" -> FALSE
    [] x.t = "bool" -> x.b
    [] x.t = "num" -> ~(x.v = 0 /\ ~x.half)
    [] x.t = "str" -> x.s # <<>>
    [] OTHER -> TRUE

\* x || y
OrElse(x, y) == IF Truthy(x) THEN x ELSE y

\* variant of ?? that also passes over 0, "" and false
FirstTruthy(x, y) == IF Truthy(x) THEN x ELSE y

\* x ?? y
Coalesce(x, y) == IF x.t \in {"null", "undefined"} THEN y ELSE x

\* reading a property of null or undefined throws a TypeError
IsNullish(x) == x.t \in {"null", "undefined"}

\* x.k for a value x that is not null or undefined
Get(x, k) == IF x.t = "obj" /\ k \in DOMAIN x.o THEN x.o[k] ELSE Undefined

\* x?.k
GetOpt(x, k) == IF IsNullish(x) THEN Undefined ELSE Get(x, k)

DigitChars == <<"0", "1", "2", "3", "4", "5", "6", "7", "8", "9">>

RECURSIVE Digits(_)
Digits(n) ==
  IF n < 10 THEN <<DigitChars[n + 1]>>
  ELSE Digits(n \div 10) \o <<DigitChars[(n % 10) + 1]>>

\* String(x) for a number
NumText(x) ==
  IF ~x.half
  THEN IF x.v >= 0 THEN Digits(x.v) ELSE <<"-">> \o Digits(-x.v)
  ELSE IF x.v >= 0 THEN Digits(x.v) \o <<".", "5">>
       ELSE <<"-">> \o Digits(-x.v - 1) \o <<".", "5">>

ObjectObject == <<"[", "o", "b", "j", "e", "c", "t", " ", "O", "b", "j", "e", "c", "t", "]">>

RECURSIVE JoinChars(_, _)
JoinChars(parts, sep) ==
  IF parts = <<>> THEN <<>>
  ELSE IF Len(parts) = 1 THEN parts[1]
  ELSE parts[1] \o sep \o JoinChars(Tail(parts), sep)

\* String(x): the characters of the string conversion
RECURSIVE JSString(_)
JSString(x) ==
  CASE x.t = "str" -> x.s
    [] x.t = "num" -> NumText(x)
    [] x.t = "bool" -> IF x.b THEN <<"t", "r", "u", "e">> ELSE <<"f", "a", "l", "s", "e">>
    [] x.t = "null" -> <<"n", "u", "l", "l">>
    [] x.t = "undefined" -> <<"u", "n", "d", "e", "f", "i", "n", "e", "d">>
    [] x.t = "obj" -> ObjectObject
    [] x.t = "arr" ->
         JoinChars([i \in 1..Len(x.a) |->
                      IF IsNullish(x.a[i]) THEN <<>> ELSE JSString(x.a[i])], <<",">>)

IsSpace(c) == c \in {" ", "\t", "\n", "\r"}

RECURSIVE TrimStart(_)
TrimStart(s) == IF s # <<>> /\ IsSpace(Head(s)) THEN TrimStart(Tail(s)) ELSE s

RECURSIVE TrimEnd(_)
TrimEnd(s) ==
  IF s # <<>> /\ IsSpace(s[Len(s)]) THEN TrimEnd(SubSeq(s, 1, Len(s) - 1)) ELSE s

\* s.trim()
Trim(s) == TrimEnd(TrimStart(s))

(***************************************************************************)
(* recipeTaxonomy.ts: the three closed vocabularies, in source order       *)
(***************************************************************************)
GENRE_OF_FOOD_OPTIONS ==
  << <<"A","m","e","r","i","c","a","n">>,
     <<"I","t","a","l","i","a","n">>,
     <<"M","e","x","i","c","a","n">>,
     <<"T","e","x","-","M","e","x">>,
     <<"L","a","t","i","n"," ","A","m","e","r","i","c","a","n">>,
     <<"C","a","r","i","b","b","e","a","n">>,
     <<"F","r","e","n","c","h">>,
     <<"S","p","a","n","i","s","h">>,
     <<"G","r","e","e","k">>,
     <<"M","e","d","i","t","e","r","r","a","n","e","a","n">>,
     <<"M","i","d","d","l","e"," ","E","a","s","t","e","r","n">>,
     <<"I","n","d","i","a","n">>,
     <<"C","h","i","n","e","s","e">>,
     <<"J","a","p","a","n","e","s","e">>,
     <<"K","o","r","e","a","n">>,
     <<"T","h","a","i">>,
     <<"V","i","e","t","n","a","m","e","s","e">>,
     <<"F","i","l","i","p","i","n","o">>,
     <<"A","f","r","i","c","a","n">>,
     <<"E","t","h","i","o","p","i","a","n">>,
     <<"M","o","r","o","c","c","a","n">>,
     <<"G","e","r","m","a","n">>,
     <<"E","a","s","t","e","r","n"," ","E","u","r","o","p","e","a","n">>,
     <<"B","r","i","t","i","s","h">>,
     <<"F","u","s","i","o","n">>,
     <<"I","n","t","e","r","n","a","t","i","o","n","a","l">>,
     <<"P","l","a","n","t","-","B","a","s","e","d">>,
     <<"V","e","g","a","n">>,
     <<"V","e","g","e","t","a","r","i","a","n">>,
     <<"G","l","u","t","e","n","-","F","r","e","e">>,
     <<"K","e","t","o">> >>

TYPE_OF_DISH_OPTIONS ==
  << <<"B","r","e","a","k","f","a","s","t">>,
     <<"B","r","u","n","c","h">>,
     <<"L","u","n","c","h">>,
     <<"D","i","n","n","e","r">>,
     <<"S","n","a","c","k">>,
     <<"D","e","s","s","e","r","t">>,
     <<"A","p","p","e","t","i","z","e","r">>,
     <<"S","i","d","e"," ","D","i","s","h">>,
     <<"M","a","i","n"," ","C","o","u","r","s","e">>,
     <<"S","o","u","p">>,
     <<"S","a","l","a","d">>,
     <<"S","a","n","d","w","i","c","h">>,
     <<"P","a","s","t","a">>,
     <<"P","i","z","z","a">>,
     <<"R","i","c","e"," ","D","i","s","h">>,
     <<"N","o","o","d","l","e","s">>,
     <<"C","a","s","s","e","r","o","l","e">>,
     <<"S","t","i","r","-","F","r","y">>,
     <<"B","o","w","l">>,
     <<"W","r","a","p">>,
     <<"T","a","c","o">>,
     <<"B","u","r","g","e","r">>,
     <<"S","e","a","f","o","o","d">>,
     <<"P","o","u","l","t","r","y">>,
     <<"B","e","e","f">>,
     <<"P","o","r","k">>,
     <<"V","e","g","e","t","a","r","i","a","n"," ","D","i","s","h">>,
     <<"V","e","g","a","n"," ","D","i","s","h">>,
     <<"B","r","e","a","d">>,
     <<"M","u","f","f","i","n","s">>,
     <<"C","o","o","k","i","e","s">>,
     <<"C","a","k","e">>,
     <<"B","r","o","w","n","i","e","s">>,
     <<"B","a","r","s">>,
     <<"P","i","e">>,
     <<"S","m","o","o","t","h","i","e">>,
     <<"S","a","u","c","e">>,
     <<"D","r","e","s","s","i","n","g">>,
     <<"D","i","p">>,
     <<"M","a","r","i","n","a","d","e">> >>

METHOD_OF_COOKING_OPTIONS ==
  << <<"S","t","o","v","e">>,
     <<"O","v","e","n">>,
     <<"M","i","c","r","o","w","a","v","e">>,
     <<"A","i","r"," ","F","r","y","e","r">>,
     <<"I","n","s","t","a","n","t"," ","P","o","t">>,
     <<"G","r","i","l","l">>,
     <<"S","l","o","w"," ","C","o","o","k","e","r">>,
     <<"N","o","-","C","o","o","k">> >>

Includes(options, s) == \E i \in 1..Len(options) : options[i] = s

\* variant that takes every value for a genre
AnyGenreOfFood(value) == TRUE

isValidGenreOfFood(value) == value.t = "str" /\ Includes(GENRE_OF_FOOD_OPTIONS, value.s)

isValidTypeOfDish(value) == value.t = "str" /\ Includes(TYPE_OF_DISH_OPTIONS, value.s)

isValidMethodOfCooking(value) == value.t = "str" /\ Includes(METHOD_OF_COOKING_OPTIONS, value.s)

MaxTypeOfDish == 3

\* variant without the slice
FilterTypeOfDish(values) == SelectSeq(values, isValidTypeOfDish)

\* values.filter(isValidTypeOfDish).slice(0, 3)
validateTypeOfDishArray(values) ==
  LET valid == SelectSeq(values, isValidTypeOfDish)
  IN SubSeq(valid, 1, IF Len(valid) < MaxTypeOfDish THEN Len(valid) ELSE MaxTypeOfDish)

(***************************************************************************)
(* geminiVision.ts: toTitleCase                                            *)
(***************************************************************************)
UpperChars ==
  <<"A", "B", "C", "D", "E", "F", "G", "H", "I", "J", "K", "L", "M",
    "N", "O", "P", "Q", "R", "S", "T", "U", "V", "W", "X", "Y", "Z">>

LowerChars ==
  <<"a", "b", "c", "d", "e", "f", "g", "h", "i", "j", "k", "l", "m",
    "n", "o", "p", "q", "r", "s", "t", "u", "v", "w", "x", "y", "z">>

IsUpperChar(c) == \E i \in 1..Len(UpperChars) : UpperChars[i] = c

IsLowerChar(c) == \E i \in 1..Len(LowerChars) : LowerChars[i] = c

\* /[a-zA-Z]/
IsLetter(c) == IsUpperChar(c) \/ IsLowerChar(c)

\* c.toUpperCase() for one character
CharToUpper(c) ==
  IF IsLowerChar(c) THEN UpperChars[CHOOSE i \in 1..Len(LowerChars) : LowerChars[i] = c] ELSE c

\* c.toLowerCase() for one character
CharToLower(c) ==
  IF IsUpperChar(c) THEN LowerChars[CHOOSE i \in 1..Len(UpperChars) : UpperChars[i] = c] ELSE c

\* s.toLowerCase()
ToLowerCase(s) == [i \in 1..Len(s) |-> CharToLower(s[i])]

\* s.split(' ')
RECURSIVE SplitOnSpace(_)
SplitOnSpace(s) ==
  IF \A i \in 1..Len(s) : s[i] # " " THEN <<s>>
  ELSE LET k == CHOOSE i \in 1..Len(s) : s[i] = " " /\ \A j \in 1..(i - 1) : s[j] # " "
       IN <<SubSeq(s, 1, k - 1)>> \o SplitOnSpace(SubSeq(s, k + 1, Len(s)))

\* word.charAt(0).toUpperCase() + word.slice(1)
Capitalize(word) == IF Len(word) = 0 THEN word ELSE <<CharToUpper(Head(word))>> \o Tail(word)

\* variant that also converts a text exactly half of whose letters are capitals
TitleCaseFromHalf(text) ==
  LET letters == SelectSeq(text, IsLetter)
      uppercaseCount == Len(SelectSeq(letters, LAMBDA c : c = CharToUpper(c)))
      words == SplitOnSpace(ToLowerCase(text))
  IN IF Len(letters) = 0 \/ 2 * uppercaseCount < Len(letters) THEN text
     ELSE JoinChars([i \in 1..Len(words) |-> Capitalize(words[i])], <<" ">>)

\* toTitleCase(text) for a string text
toTitleCase(text) ==
  LET letters == SelectSeq(text, IsLetter)
      uppercaseCount == Len(SelectSeq(letters, LAMBDA c : c = CharToUpper(c)))
      isMostlyUppercase == 2 * uppercaseCount > Len(letters)
      words == SplitOnSpace(ToLowerCase(text))
  IN IF text = <<>> THEN text
     ELSE IF Len(letters) = 0 THEN text
     ELSE IF ~isMostlyUppercase THEN text
     ELSE JoinChars([i \in 1..Len(words) |-> Capitalize(words[i])], <<" ">>)

(***************************************************************************)
(* geminiVision.ts: validateAndNormalizeRecipe                             *)
(***************************************************************************)
UntitledRecipe ==
  <<"U", "n", "t", "i", "t", "l", "e", "d", " ", "R", "e", "c", "i", "p", "e">>

\* data.f ? String(data.f).trim() : null
TrimmedOrNull(v) == IF Truthy(v) THEN Str(Trim(JSString(v))) ELSE Null

\* typeof data.f === 'number' ? data.f : null
NumberOrNull(v) == IF IsNumber(v) THEN v ELSE Null

\* one entry of data.ingredients.map(...)
NormalizeIngredient(ing) ==
  Obj([quantity |-> Str(JSString(OrElse(Get(ing, "quantity"), Str(<<>>)))),
       unit |-> Str(JSString(OrElse(Get(ing, "unit"), Str(<<>>)))),
       item |-> Str(JSString(OrElse(Get(ing, "item"), Str(<<>>)))),
       notes |-> Str(JSString(OrElse(Get(ing, "notes"), Str(<<>>))))])

\* one entry of data.instructions.map((inst, index) => ...), index counted from 0
MapInstruction(inst, index) ==
  Obj([step_number |-> IF IsNumber(Get(inst, "step_number"))
                       THEN Get(inst, "step_number") ELSE Num(index + 1),
       text |-> Str(JSString(OrElse(OrElse(Get(inst, "text"), inst), Str(<<>>))))])

\* variant of the filter predicate without the trim test
KeepTruthyText(inst) == Truthy(Get(inst, "text"))

\* the predicate of .filter(inst => inst.text && inst.text.trim().length > 0)
KeepInstruction(inst) ==
  Truthy(Get(inst, "text")) /\ Len(Trim(Get(inst, "text").s)) > 0

NormalizeInstructions(v) ==
  IF IsArray(v)
  THEN Arr(SelectSeq([i \in 1..Len(v.a) |-> MapInstruction(v.a[i], i - 1)], KeepInstruction))
  ELSE Arr(<<>>)

NormalizeNutrition(v) ==
  IF Truthy(v)
  THEN Obj([calories |-> NumberOrNull(Get(v, "calories")),
            protein_g |-> NumberOrNull(Get(v, "protein_g")),
            fat_g |-> NumberOrNull(Get(v, "fat_g")),
            carbs_g |-> NumberOrNull(Get(v, "carbs_g"))])
  ELSE Null

\* the inputs on which validateAndNormalizeRecipe throws a TypeError: a
\* property read of null, or toTitleCase calling .replace on a non-string
NormalizeThrows(data) ==
  \/ IsNullish(data)
  \/ OrElse(Get(data, "recipe_name"), Str(UntitledRecipe)).t # "str"
  \/ /\ IsArray(Get(data, "ingredients"))
     /\ \E i \in 1..Len(Get(data, "ingredients").a) : IsNullish(Get(data, "ingredients").a[i])
  \/ /\ IsArray(Get(data, "instructions"))
     /\ \E i \in 1..Len(Get(data, "instructions").a) : IsNullish(Get(data, "instructions").a[i])

\* the record validateAndNormalizeRecipe returns when it does not throw; the
\* two provenance flags are absent until attemptExtraction sets them
validateAndNormalizeRecipe(data) ==
  LET rawRecipeName == OrElse(Get(data, "recipe_name"), Str(UntitledRecipe))
      rawAuthor == TrimmedOrNull(Get(data, "author"))
  IN [recipe_name |-> Str(toTitleCase(rawRecipeName.s)),
      author |-> IF Truthy(rawAuthor) THEN Str(toTitleCase(rawAuthor.s)) ELSE Null,
      description |-> TrimmedOrNull(Get(data, "description")),
      link |-> TrimmedOrNull(Get(data, "link")),
      servings |-> NumberOrNull(Get(data, "servings")),
      prep_time_minutes |-> NumberOrNull(Get(data, "prep_time_minutes")),
      cook_time_minutes |-> NumberOrNull(Get(data, "cook_time_minutes")),
      ingredients |-> IF IsArray(Get(data, "ingredients"))
                      THEN Arr([i \in 1..Len(Get(data, "ingredients").a) |->
                                  NormalizeIngredient(Get(data, "ingredients").a[i])])
                      ELSE Arr(<<>>),
      instructions |-> NormalizeInstructions(Get(data, "instructions")),
      nutrition |-> NormalizeNutrition(Get(data, "nutrition")),
      nutrition_ai_estimated |-> Undefined,
      nutrition_servings_used |-> Undefined,
      genreOfFood |-> IF Truthy(Get(data, "genreOfFood")) /\ isValidGenreOfFood(Get(data, "genreOfFood"))
                      THEN Get(data, "genreOfFood") ELSE Null,
      typeOfDish |-> IF IsArray(Get(data, "typeOfDish"))
                     THEN Arr(validateTypeOfDishArray(Get(data, "typeOfDish").a))
                     ELSE Null,
      methodOfCooking |-> IF Truthy(Get(data, "methodOfCooking")) /\ isValidMethodOfCooking(Get(data, "methodOfCooking"))
                          THEN Get(data, "methodOfCooking") ELSE Null,
      authorsNotes |-> TrimmedOrNull(Get(data, "authorsNotes"))]

(***************************************************************************)
(* Errors.  A message is the sequence of the pieces it is concatenated     *)
(* from.                                                                   *)
(***************************************************************************)
Error(message) == [t |-> "error", message |-> message]

RetryMessage == <<"INSTRUCTIONS_MISSING_RETRY">>

NoInstructionsMessage ==
  <<"Failed to extract recipe instructions. The recipe document must contain cooking instructions, but none were found after multiple attempts.">>

NoApiKeyMessage == <<"GOOGLE_AI_API_KEY environment variable is not set">>

AfterRetriesMessage == <<"Failed to extract recipe after retries">>

QuotaPrefix == "API quota exceeded. "

InvalidFormatMessage == <<"Invalid response format from Gemini API">>

ParseFailedMessage == <<"Failed to parse recipe data from API response">>

\* a TypeError raised by the runtime (property read of null, .replace on a non-string)
TypeErrorMessage == <<"TypeError">>

\* the rejection of fetch() when no HTTP answer arrives
FetchFailedMessage == <<"fetch failed">>

StatusText(status) ==
  CASE status = 404 -> "404"
    [] status = 429 -> "429"
    [] status = 500 -> "500"
    [] OTHER -> "status"

(***************************************************************************)
(* Answers of the external model service.  An answer either rejects the    *)
(* fetch (net = "rejected") or carries an HTTP status and a body.  The     *)
(* body of a 2xx answer is given by what the code's fence stripping,       *)
(* truncation repair and JSON.parse make of it: no candidates, text that   *)
(* does not parse, or the parsed value.  The body of an error answer is    *)
(* its error text: whether it parses, error.message ("" when absent) and   *)
(* the retryDelay of each error.details entry ("" when absent).            *)
(***************************************************************************)
Rejected == [net |-> "rejected", status |-> 0, body |-> [kind |-> "none"]]
Answer(status, body) == [net |-> "answered", status |-> status, body |-> body]
ErrorText(json, message, details) ==
  [kind |-> "error", json |-> json, message |-> message, details |-> details]
NoCandidates == [kind |-> "nocandidates"]
BadJson == [kind |-> "badjson"]
Json(data) == [kind |-> "json", data |-> data]

\* response.ok
ResponseOk(r) == r.net = "answered" /\ r.status >= 200 /\ r.status <= 299

\* variant with a third model in the chain
ThreeModels == <<"gemini-3-flash-preview", "gemini-2.5-flash", "gemini-2.0-flash">>

modelsToTry == <<"gemini-3-flash-preview", "gemini-2.5-flash">>

\* variant of the chain that goes on to the next model after any failure
TriesNextModelAfterFailure(status) == status < 200 \/ status > 299

\* the model chain goes on to the next model after this status (lines 228-231
\* and 596-599); any other status breaks out of the loop
TriesNextModel(status) == status = 404

\* attemptExtraction lines 242-255: the message of the quota error
QuotaMessage(body) ==
  IF body.json
  THEN <<QuotaPrefix>>
       \o (IF body.message # "" THEN <<body.message>> ELSE <<>>)
       \o (IF Len(body.details) >= 1 /\ body.details[1] # ""
           THEN <<" Please retry after ", body.details[1], ".">> ELSE <<>>)
  ELSE <<QuotaPrefix, "Please wait a moment and try again.">>

\* attemptExtraction lines 237-268: the error thrown for the final answer r
\* of the chain when it is not ok
ResponseError(r) ==
  IF r.status = 429 THEN Error(QuotaMessage(r.body))
  ELSE IF r.status = 404
  THEN Error(<<"No available models found. Tried: ", modelsToTry[1], ", ", modelsToTry[2]>>)
  ELSE Error(<<"Gemini API error: ", StatusText(r.status)>>)

\* variant that takes every normalized recipe as one with instructions
InstructionsNeverMissing(recipe) == FALSE

\* !normalizedRecipe.instructions || normalizedRecipe.instructions.length === 0
InstructionsMissing(recipe) ==
  ~Truthy(recipe.instructions) \/ Len(recipe.instructions.a) = 0

\* attemptExtraction lines 270-333 on an ok answer: the error thrown, or the
\* normalized recipe
Threw(error) == [threw |-> TRUE, error |-> error]
Returned(value) == [threw |-> FALSE, value |-> value]

ParsePrimary(body) ==
  IF body.kind = "nocandidates" THEN Threw(Error(InvalidFormatMessage))
  ELSE IF body.kind = "badjson" THEN Threw(Error(ParseFailedMessage))
  ELSE IF NormalizeThrows(body.data) THEN Threw(Error(TypeErrorMessage))
  ELSE IF InstructionsMissing(validateAndNormalizeRecipe(body.data))
  THEN Threw(Error(RetryMessage))
  ELSE Returned(validateAndNormalizeRecipe(body.data))

\* Math.round
MathRound(x) == IF x.half THEN Num(x.v + 1) ELSE x

\* parseInt of the digits s[i..j-1]
RECURSIVE ParseInt(_, _, _)
ParseInt(s, i, j) ==
  IF j <= i THEN 0
  ELSE 10 * ParseInt(s, i, j - 1) + (CHOOSE n \in 1..10 : DigitChars[n] = s[j - 1]) - 1

\* lines 343-353 and 481-496: the serving count read from a string, none
\* when the string holds no digit.  The range pattern is
\* /(\d+)\s*[-...to]\s*(\d+)/i: digits, white space, ONE character of the
\* class (a hyphen, a t or an o in either case; the en dash and the em dash
\* of the class occur in no input here), white space, digits.  Digits and
\* white space are disjoint from the class, so each group is a whole run.
ServingsFromString(s, none) ==
  LET digits == {DigitChars[n] : n \in 1..10}
      spaces == {" ", "\t", "\n", "\r"}
      separators == {"-", "t", "o", "T", "O"}
      \* the position after the longest run of characters of S from i
      RunEnd(i, S) ==
        CHOOSE j \in i..(Len(s) + 1) :
          /\ \A k \in i..(j - 1) : s[k] \in S
          /\ (j = Len(s) + 1 \/ s[j] \notin S)
      SeparatorAt(i) == RunEnd(RunEnd(i, digits), spaces)
      SecondAt(i) == RunEnd(SeparatorAt(i) + 1, spaces)
      RangeMatchAt(i) ==
        /\ RunEnd(i, digits) > i
        /\ SeparatorAt(i) <= Len(s)
        /\ s[SeparatorAt(i)] \in separators
        /\ RunEnd(SecondAt(i), digits) > SecondAt(i)
      Leftmost(P(_)) == CHOOSE p \in 1..Len(s) : P(p) /\ \A q \in 1..(p - 1) : ~P(q)
      IsDigitAt(i) == s[i] \in digits
      rangeAt == Leftmost(RangeMatchAt)
      sum == ParseInt(s, rangeAt, RunEnd(rangeAt, digits))
               + ParseInt(s, SecondAt(rangeAt), RunEnd(SecondAt(rangeAt), digits))
      singleAt == Leftmost(IsDigitAt)
  IN IF \E p \in 1..Len(s) : RangeMatchAt(p)
     THEN MathRound([t |-> "num", v |-> sum \div 2, half |-> sum % 2 = 1])
     ELSE IF \E p \in 1..Len(s) : IsDigitAt(p)
     THEN Num(ParseInt(s, singleAt, RunEnd(singleAt, digits)))
     ELSE none

\* attemptExtraction lines 336-355
ServingsUsed(recipe) ==
  IF recipe.servings = Null THEN Null
  ELSE IF IsNumber(recipe.servings) THEN recipe.servings
  ELSE ServingsFromString(JSString(recipe.servings), Null)

NutritionFields == <<"calories", "protein_g", "fat_g", "carbs_g">>

\* attemptExtraction lines 358-368
MissingFields(recipe) ==
  IF ~Truthy(recipe.nutrition) THEN NutritionFields
  ELSE SelectSeq(NutritionFields, LAMBDA f : Get(recipe.nutrition, f) = Null)

(***************************************************************************)
(* geminiVision.ts: estimateNutritionFromIngredients                       *)
(***************************************************************************)
DefaultServings == 4

\* lines 470-497: the serving count the estimate assumes
ServingsNumber(servings) ==
  IF servings = Null THEN Num(DefaultServings)
  ELSE IF IsNumber(servings) THEN servings
  ELSE ServingsFromString(JSString(servings), Num(DefaultServings))

Estimate(calories, protein_g, fat_g, carbs_g, servings_used) ==
  [calories |-> calories, protein_g |-> protein_g, fat_g |-> fat_g,
   carbs_g |-> carbs_g, servings_used |-> servings_used]

\* variant of the failure exits that answers zeros
ZeroEstimate(servings_used) == Estimate(Num(0), Num(0), Num(0), Num(0), servings_used)

\* lines 610-619 and 778-787: all four values null
NoEstimate(servings_used) == Estimate(Null, Null, Null, Null, servings_used)

InFields(fields, f) == \E i \in 1..Len(fields) : fields[i] = f

\* lines 680-715: a value only for a requested field the answer gives as a number
EstimatedField(nutritionData, missingFields, f) ==
  IF InFields(missingFields, f) /\ IsNumber(Get(nutritionData, f))
  THEN MathRound(Get(nutritionData, f)) ELSE Null

\* lines 742-768: the regular-expression fallback on text that does not
\* parse; body.regex[f] is the run of digits found after "f": or null
RegexField(body, missingFields, f) ==
  IF InFields(missingFields, f) /\ body.regex[f] # Null THEN body.regex[f] ELSE Null

\* lines 605-788: what estimateNutritionFromIngredients returns for the
\* final answer r of its model chain
EstimateFromResponse(r, servings, missingFields) ==
  LET servingsNumber == ServingsNumber(servings)
      body == r.body
  IN IF r.net = "rejected" THEN NoEstimate(servings)
     ELSE IF ~ResponseOk(r)
     THEN IF r.status = 429 THEN NoEstimate(servingsNumber) ELSE NoEstimate(servings)
     ELSE IF body.kind = "nocandidates" THEN NoEstimate(servings)
     ELSE IF body.kind = "json"
     THEN IF IsNullish(body.data) THEN NoEstimate(servings)
          ELSE Estimate(EstimatedField(body.data, missingFields, "calories"),
                        EstimatedField(body.data, missingFields, "protein_g"),
                        EstimatedField(body.data, missingFields, "fat_g"),
                        EstimatedField(body.data, missingFields, "carbs_g"),
                        servingsNumber)
     ELSE IF \E i \in 1..Len(NutritionFields) : body.regex[NutritionFields[i]] # Null
     THEN Estimate(RegexField(body, missingFields, "calories"),
                   RegexField(body, missingFields, "protein_g"),
                   RegexField(body, missingFields, "fat_g"),
                   RegexField(body, missingFields, "carbs_g"),
                   servingsNumber)
     ELSE NoEstimate(servings)

\* variant that takes every estimate for one with values
AlwaysEstimated(est) == TRUE

\* attemptExtraction lines 393-396
HasEstimatedValues(est) ==
  est.calories # Null \/ est.protein_g # Null \/ est.fat_g # Null \/ est.carbs_g # Null

\* attemptExtraction lines 385-401: the recipe after the merge
MergeNutrition(recipe, est) ==
  LET existingNutrition == recipe.nutrition
      merged == Obj([calories |-> Coalesce(GetOpt(existingNutrition, "calories"), est.calories),
                     protein_g |-> Coalesce(GetOpt(existingNutrition, "protein_g"), est.protein_g),
                     fat_g |-> Coalesce(GetOpt(existingNutrition, "fat_g"), est.fat_g),
                     carbs_g |-> Coalesce(GetOpt(existingNutrition, "carbs_g"), est.carbs_g)])
  IN IF HasEstimatedValues(est)
     THEN [recipe EXCEPT !.nutrition = merged,
                         !.nutrition_ai_estimated = Bool(TRUE),
                         !.nutrition_servings_used =
                            Coalesce(est.servings_used, ServingsUsed(recipe))]
     ELSE [recipe EXCEPT !.nutrition = merged]

(***************************************************************************)
(* geminiVision.ts: extractRecipeFromImage, the loop around                *)
(* attemptExtraction                                                       *)
(***************************************************************************)
MaxAttempts == 2

LoopStep(do, value, error, lastError) ==
  [do |-> do, value |-> value, error |-> error, lastError |-> lastError]

\* variant of the catch block that rethrows every error
AfterThrowNoRetry(att, error, lastE) == LoopStep("throw", Null, error, lastE)

\* lines 77-88: the catch block, for the error of iteration `att`
AfterThrow(att, error, lastE) ==
  IF error.message = RetryMessage /\ att = 1 THEN LoopStep("continue", Null, Null, lastE)
  ELSE IF att = 2 THEN LoopStep("throw", Null, error, lastE)
  ELSE LoopStep("continue", Null, Null, error)

\* lines 62-76: attemptExtraction returned `result` in iteration `att`
AfterReturn(att, result, lastE) ==
  IF InstructionsMissing(result)
  THEN IF att = 1 THEN LoopStep("continue", Null, Null, Error(RetryMessage))
       ELSE AfterThrow(att, Error(NoInstructionsMessage), lastE)
  ELSE LoopStep("return", result, Null, lastE)

AfterAttempt(att, outcome, lastE) ==
  IF outcome.threw THEN AfterThrow(att, outcome.error, lastE)
  ELSE AfterReturn(att, outcome.value, lastE)

\* line 92: the loop ran out of iterations
AfterLoop(lastE) == IF Truthy(lastE) THEN lastE ELSE Error(AfterRetriesMessage)

(***************************************************************************)
(* The Recipe table (prisma.recipe) and recipeCache.ts                     *)
(***************************************************************************)
\* JSON.stringify drops the object keys whose value is undefined and writes
\* an undefined array element as null; the text is kept as the value it encodes
RECURSIVE Serializable(_)
Serializable(v) ==
  CASE v.t = "obj" ->
         Obj([k \in {j \in DOMAIN v.o : v.o[j] # Undefined} |-> Serializable(v.o[k])])
    [] v.t = "arr" ->
         Arr([i \in 1..Len(v.a) |->
                IF v.a[i] = Undefined THEN Null ELSE Serializable(v.a[i])])
    [] OTHER -> v

JSONstringify(v) == [t |-> "json", v |-> Serializable(v)]

JSONparse(text) == text.v

\* the columns a create leaves to their defaults
DefaultRow ==
  [id |-> 0, userId |-> "", fileHash |-> Null,
   recipe_name |-> Null, author |-> Null, description |-> Null, link |-> Null,
   servings |-> Null, prep_time_minutes |-> Null, cook_time_minutes |-> Null,
   ingredients |-> Null, instructions |-> Null, nutrition |-> Null,
   nutrition_ai_estimated |-> Bool(FALSE), made_before |-> Bool(FALSE),
   genreOfFood |-> Null, typeOfDish |-> Null, methodOfCooking |-> Null,
   image |-> Null, userNotes |-> Null, authorsNotes |-> Null,
   originalFile |-> Null, originalFileName |-> Null, originalFileType |-> Null]

\* variant that stores the row without the hash of the file
UnkeyedRow(id, fileHash, recipe, userId) ==
  [DefaultRow EXCEPT
     !.id = id,
     !.recipe_name = recipe.recipe_name,
     !.ingredients = JSONstringify(recipe.ingredients),
     !.instructions = JSONstringify(recipe.instructions),
     !.userId = userId]

\* saveCachedRecipe lines 90-109: the row prisma.recipe.create inserts
CacheRow(id, fileHash, recipe, userId) ==
  [DefaultRow EXCEPT
     !.id = id,
     !.recipe_name = recipe.recipe_name,
     !.author = recipe.author,
     !.description = recipe.description,
     !.link = recipe.link,
     !.servings = recipe.servings,
     !.prep_time_minutes = recipe.prep_time_minutes,
     !.cook_time_minutes = recipe.cook_time_minutes,
     !.ingredients = JSONstringify(recipe.ingredients),
     !.instructions = JSONstringify(recipe.instructions),
     !.nutrition = IF Truthy(recipe.nutrition) THEN JSONstringify(recipe.nutrition) ELSE Null,
     !.genreOfFood = OrElse(recipe.genreOfFood, Null),
     !.typeOfDish = IF Truthy(recipe.typeOfDish) THEN JSONstringify(recipe.typeOfDish) ELSE Null,
     !.methodOfCooking = OrElse(recipe.methodOfCooking, Null),
     !.authorsNotes = OrElse(recipe.authorsNotes, Null),
     !.fileHash = fileHash,
     !.userId = userId]

\* getCachedRecipe lines 50-74: the recipe built from the row found
CachedRecipe(row) ==
  LET nutritionData == IF Truthy(row.nutrition) THEN JSONparse(row.nutrition) ELSE Null
      typeOfDishArray == IF Truthy(row.typeOfDish) THEN JSONparse(row.typeOfDish) ELSE Null
  IN [recipe_name |-> row.recipe_name,
      author |-> row.author,
      description |-> row.description,
      link |-> row.link,
      servings |-> row.servings,
      prep_time_minutes |-> row.prep_time_minutes,
      cook_time_minutes |-> row.cook_time_minutes,
      ingredients |-> JSONparse(row.ingredients),
      instructions |-> JSONparse(row.instructions),
      nutrition |-> IF Truthy(nutritionData)
                    THEN Obj([calories |-> Get(nutritionData, "calories"),
                              protein_g |-> Get(nutritionData, "protein_g"),
                              fat_g |-> Get(nutritionData, "fat_g"),
                              carbs_g |-> Get(nutritionData, "carbs_g")])
                    ELSE Null,
      nutrition_ai_estimated |-> OrElse(GetOpt(nutritionData, "_ai_estimated"), Bool(FALSE)),
      nutrition_servings_used |-> OrElse(GetOpt(nutritionData, "_servings_used"), Null),
      genreOfFood |-> OrElse(row.genreOfFood, Null),
      typeOfDish |-> OrElse(typeOfDishArray, Null),
      methodOfCooking |-> OrElse(row.methodOfCooking, Null),
      authorsNotes |-> OrElse(row.authorsNotes, Null)]

\* getCachedRecipe: every value the call may return on table `rows`.
\* findFirst({where: {fileHash}}) states no order, so any row with the hash
\* may be the one found; a failing read is caught and gives null (lines 75-78)
getCachedRecipe(rows, fileHash, dbUp) ==
  IF ~dbUp \/ ~\E row \in rows : row.fileHash = fileHash
  THEN {Null}
  ELSE {CachedRecipe(row) : row \in {w \in rows : w.fileHash = fileHash}}

(***************************************************************************)
(* api/recipes/route.ts POST and api/recipes/[id]/route.ts PUT: the rows   *)
(* they write.  A request body is a JSON object; a key it omits reads as   *)
(* undefined.                                                              *)
(***************************************************************************)
ArrayOrEmpty(v) == IF IsArray(v) THEN v ELSE Arr(<<>>)

\* api/recipes/route.ts lines 62-77
PostRow(id, body, userId) ==
  [DefaultRow EXCEPT
     !.id = id,
     !.recipe_name = Get(body, "recipe_name"),
     !.servings = OrElse(Get(body, "servings"), Null),
     !.prep_time_minutes = OrElse(Get(body, "prep_time_minutes"), Null),
     !.cook_time_minutes = OrElse(Get(body, "cook_time_minutes"), Null),
     !.ingredients = JSONstringify(ArrayOrEmpty(Get(body, "ingredients"))),
     !.instructions = JSONstringify(ArrayOrEmpty(Get(body, "instructions"))),
     !.nutrition = IF Truthy(Get(body, "nutrition"))
                   THEN JSONstringify(Get(body, "nutrition")) ELSE Null,
     !.fileHash = OrElse(Get(body, "fileHash"), Null),
     !.userId = userId]

\* nutrition && typeof nutrition === 'object'
IsObjectValue(v) == Truthy(v) /\ v.t \in {"obj", "arr"}

\* PUT lines 1269-1283
NutritionToSave(nutrition) ==
  IF IsObjectValue(nutrition)
  THEN Obj([calories |-> Get(nutrition, "calories"),
            protein_g |-> Get(nutrition, "protein_g"),
            fat_g |-> Get(nutrition, "fat_g"),
            carbs_g |-> Get(nutrition, "carbs_g"),
            _ai_estimated |-> OrElse(Get(nutrition, "_ai_estimated"), Bool(FALSE)),
            _servings_used |-> OrElse(Get(nutrition, "_servings_used"), Null)])
  ELSE nutrition

\* PUT lines 1270-1272
NutritionAiEstimated(nutrition) ==
  IF IsObjectValue(nutrition) THEN OrElse(Get(nutrition, "_ai_estimated"), Bool(FALSE))
  ELSE Bool(FALSE)

\* prisma update: a field given as undefined keeps the stored value
Updated(new, old) == IF new = Undefined THEN old ELSE new

\* v !== undefined ? (v || null) : undefined
ClearedOrKept(v) == IF v # Undefined THEN OrElse(v, Null) ELSE Undefined

\* PUT lines 1290-1298 and 1315-1317
ValidatedGenre(v) ==
  IF v # Undefined THEN (IF Truthy(v) /\ isValidGenreOfFood(v) THEN v ELSE Null) ELSE Undefined

ValidatedMethod(v) ==
  IF v # Undefined THEN (IF Truthy(v) /\ isValidMethodOfCooking(v) THEN v ELSE Null) ELSE Undefined

ValidatedTypeOfDish(v) ==
  IF v # Undefined THEN (IF IsArray(v) THEN Arr(validateTypeOfDishArray(v.a)) ELSE Null)
  ELSE Undefined

\* PUT lines 1300-1325: the row after prisma.recipe.update
PutRow(row, body) ==
  [row EXCEPT
     !.recipe_name = Updated(OrElse(Get(body, "recipe_name"), Undefined), @),
     !.author = Updated(ClearedOrKept(Get(body, "author")), @),
     !.description = Updated(ClearedOrKept(Get(body, "description")), @),
     !.link = Updated(ClearedOrKept(Get(body, "link")), @),
     !.servings = Updated(Get(body, "servings"), @),
     !.prep_time_minutes = Updated(Get(body, "prep_time_minutes"), @),
     !.cook_time_minutes = Updated(Get(body, "cook_time_minutes"), @),
     !.ingredients = IF Len(ArrayOrEmpty(Get(body, "ingredients")).a) > 0
                     THEN JSONstringify(ArrayOrEmpty(Get(body, "ingredients"))) ELSE @,
     !.instructions = IF Len(ArrayOrEmpty(Get(body, "instructions")).a) > 0
                      THEN JSONstringify(ArrayOrEmpty(Get(body, "instructions"))) ELSE @,
     !.nutrition = IF Truthy(NutritionToSave(Get(body, "nutrition")))
                   THEN JSONstringify(NutritionToSave(Get(body, "nutrition"))) ELSE @,
     !.nutrition_ai_estimated = Updated(NutritionAiEstimated(Get(body, "nutrition")), @),
     !.made_before = Updated(Get(body, "made_before"), @),
     !.genreOfFood = Updated(ValidatedGenre(Get(body, "genreOfFood")), @),
     !.typeOfDish =
        Updated(IF ValidatedTypeOfDish(Get(body, "typeOfDish")) # Undefined
                THEN (IF Truthy(ValidatedTypeOfDish(Get(body, "typeOfDish")))
                      THEN JSONstringify(ValidatedTypeOfDish(Get(body, "typeOfDish")))
                      ELSE Null)
                ELSE Undefined, @),
     !.methodOfCooking = Updated(ValidatedMethod(Get(body, "methodOfCooking")), @),
     !.image = Updated(ClearedOrKept(Get(body, "image")), @),
     !.userNotes = Updated(ClearedOrKept(Get(body, "userNotes")), @),
     !.authorsNotes = Updated(ClearedOrKept(Get(body, "authorsNotes")), @),
     !.originalFile = Updated(ClearedOrKept(Get(body, "originalFile")), @),
     !.originalFileName = Updated(ClearedOrKept(Get(body, "originalFileName")), @),
     !.originalFileType = Updated(ClearedOrKept(Get(body, "originalFileType")), @)]

(***************************************************************************)
(* api/scan/route.ts: the responses of POST                                *)
(***************************************************************************)
NoUser == ""

NoPagesMessage ==
  <<"No pages could be extracted from the PDF. Please try converting the PDF to an image first, or ensure PDF conversion dependencies are installed.">>

\* the conversion error's own message precedes this text
PdfUnavailableMessage ==
  <<" For now, please upload recipe images (JPG, PNG) instead of PDFs, or install the required dependencies.">>

Response(status, success, cached, recipeData, error, message) ==
  [status |-> status, success |-> success, cached |-> cached,
   recipeData |-> recipeData, error |-> error, message |-> message]

NoResponse == Response(0, FALSE, FALSE, Null, <<>>, <<>>)

ErrorResponse(status, error, message) == Response(status, FALSE, FALSE, Null, error, message)

\* variant of the route that never serves the cached recipe
NeverServesFromCache(cached, debug) == FALSE

\* line 42: the cached recipe is served
ServesFromCache(cached, debug) == cached # Null /\ ~debug

\* lines 16-106: the response sent before any extraction, or NoResponse
\* when the route goes on to call extractRecipeFromImage
EarlyResponse(req, cached, keySet) ==
  IF req.session = NoUser THEN ErrorResponse(401, <<"Unauthorized">>, <<>>)
  ELSE IF ~req.named THEN ErrorResponse(400, <<"Missing filename or filepath">>, <<>>)
  ELSE IF ~req.exists THEN ErrorResponse(404, <<"File not found">>, <<>>)
  ELSE IF ServesFromCache(cached, req.debug) THEN Response(200, TRUE, TRUE, cached, <<>>, <<>>)
  ELSE IF ~keySet
  THEN ErrorResponse(500, NoApiKeyMessage,
                     <<"Please set your Google AI API key in environment variables">>)
  ELSE IF req.pdf = "nopages"
  THEN ErrorResponse(500, <<"PDF conversion failed">>, NoPagesMessage)
  ELSE IF req.pdf = "throws"
  THEN ErrorResponse(500, <<"PDF conversion not available">>, PdfUnavailableMessage)
  ELSE NoResponse

\* lines 122-131
ExtractionFailedResponse(extractionError) ==
  ErrorResponse(500, <<"Failed to extract recipe from image">>, extractionError.message)

\* variant of the route that fails the request when saveCachedRecipe threw
FatalSaveResponse(recipeData, saveThrew) ==
  IF saveThrew THEN ErrorResponse(500, <<"Failed to process document">>, <<>>)
  ELSE Response(200, TRUE, FALSE, recipeData, <<>>, <<>>)

\* lines 133-151: the response after saveCachedRecipe returned or threw; the
\* catch block only logs
SuccessResponse(recipeData, saveThrew) == Response(200, TRUE, FALSE, recipeData, <<>>, <<>>)

(***************************************************************************)
(* State.  Callers are the concurrent requests; every per-request          *)
(* variable is a function of the caller.                                   *)
(***************************************************************************)
Callers == {"c1", "c2"}

VARIABLES
  apiKeySet,    \* process.env.GOOGLE_AI_API_KEY is set
  exPc,         \* where the caller's extractRecipeFromImage call stands
  attempt,      \* the loop variable of extractRecipeFromImage
  lastError,    \* its lastError
  modelIdx,     \* the position of the running model chain in modelsToTry
  exRecipe,     \* normalizedRecipe of the running attempt, awaiting the estimate
  exResult,     \* the recipe the call returned
  exError,      \* the error the call threw
  attemptsRun,  \* how many times attemptExtraction was entered
  reqLog,       \* the requests sent to the model service, in order
  attemptLog,   \* how each attemptExtraction run ended, in order
  store,        \* the rows of the Recipe table
  nextId,       \* the id the next created row gets
  scanPc,       \* where the caller's POST /api/scan stands
  scanReq,      \* its request
  scanCached,   \* what its getCachedRecipe call returned
  scanResp,     \* the response it sent
  cacheWritten, \* per file hash, the recipe the first scan saved, as read back then
  lastStatus,   \* the status of the last response of the recipe routes
  lastRows,     \* the recipes that response held
  normCall,     \* the last direct call of a normalizer function and its outcome
  bulk          \* the bulk upload page: the files selected, the loop variable i of
                \* handleFileSelect, its position, recipes and isProcessing

exVars == <<exPc, attempt, lastError, modelIdx, exRecipe, exResult, exError,
            attemptsRun, reqLog, attemptLog>>

envVars == <<apiKeySet, store, nextId, cacheWritten, lastStatus, lastRows>>

scanVars == <<scanPc, scanReq, scanCached, scanResp>>

vars == <<envVars, exVars, scanVars, normCall, bulk>>

ExInit ==
  /\ exPc = [c \in Callers |-> "idle"]
  /\ attempt = [c \in Callers |-> 1]
  /\ lastError = [c \in Callers |-> Null]
  /\ modelIdx = [c \in Callers |-> 1]
  /\ exRecipe = [c \in Callers |-> Null]
  /\ exResult = [c \in Callers |-> Null]
  /\ exError = [c \in Callers |-> Null]
  /\ attemptsRun = [c \in Callers |-> 0]
  /\ reqLog = [c \in Callers |-> <<>>]
  /\ attemptLog = [c \in Callers |-> <<>>]

Users == {"u1", "u2"}

Hash1 == Str(<<"h", "1">>)
Hash2 == Str(<<"h", "2">>)
FileHashes == {Hash1, Hash2}

MaxRows == 2

NormCall(fn, input, threw, result) ==
  [fn |-> fn, input |-> input, threw |-> threw, result |-> result]

NormInit == normCall = NormCall("none", Null, FALSE, Null)

\* scan/bulk/page.tsx lines 80-83: the page before any file is selected
BulkInit ==
  bulk = [files |-> <<>>, i |-> 0, at |-> "idle", recipes |-> <<>>, isProcessing |-> FALSE]

ScanInit ==
  /\ scanPc = [c \in Callers |-> "idle"]
  /\ scanReq = [c \in Callers |-> Null]
  /\ scanCached = [c \in Callers |-> Null]
  /\ scanResp = [c \in Callers |-> NoResponse]

StoreInit ==
  /\ store = {}
  /\ nextId = 1
  /\ cacheWritten = [h \in FileHashes |-> Null]
  /\ lastStatus = 0
  /\ lastRows = {}

\* the locals of a call of extractRecipeFromImage and the record of its
\* requests start afresh
FreshLocals(c) ==
  /\ attempt' = [attempt EXCEPT ![c] = 1]
  /\ lastError' = [lastError EXCEPT ![c] = Null]
  /\ modelIdx' = [modelIdx EXCEPT ![c] = 1]
  /\ exRecipe' = [exRecipe EXCEPT ![c] = Null]
  /\ exResult' = [exResult EXCEPT ![c] = Null]
  /\ exError' = [exError EXCEPT ![c] = Null]
  /\ attemptsRun' = [attemptsRun EXCEPT ![c] = 0]
  /\ reqLog' = [reqLog EXCEPT ![c] = <<>>]
  /\ attemptLog' = [attemptLog EXCEPT ![c] = <<>>]

\* extractRecipeFromImage is entered: lines 56-59
EnterExtract(c) ==
  /\ exPc' = [exPc EXCEPT ![c] = "loop"]
  /\ FreshLocals(c)

\* the running attemptExtraction ends with `outcome`; lines 62-92 decide
\* whether the call returns, throws or runs the next iteration
EndAttempt(c, outcome) ==
  LET step == AfterAttempt(attempt[c], outcome, lastError[c])
  IN /\ attemptLog' = [attemptLog EXCEPT ![c] =
          Append(@, [attempt |-> attempt[c], threw |-> outcome.threw,
                     message |-> IF outcome.threw THEN outcome.error.message ELSE <<>>])]
     /\ lastError' = [lastError EXCEPT ![c] = step.lastError]
     /\ exRecipe' = [exRecipe EXCEPT ![c] = Null]
     /\ IF step.do = "return"
        THEN /\ exPc' = [exPc EXCEPT ![c] = "returned"]
             /\ exResult' = [exResult EXCEPT ![c] = step.value]
             /\ UNCHANGED <<attempt, exError>>
        ELSE IF step.do = "throw"
        THEN /\ exPc' = [exPc EXCEPT ![c] = "thrown"]
             /\ exError' = [exError EXCEPT ![c] = step.error]
             /\ UNCHANGED <<attempt, exResult>>
        ELSE IF attempt[c] + 1 <= MaxAttempts
        THEN /\ exPc' = [exPc EXCEPT ![c] = "loop"]
             /\ attempt' = [attempt EXCEPT ![c] = @ + 1]
             /\ UNCHANGED <<exResult, exError>>
        ELSE /\ exPc' = [exPc EXCEPT ![c] = "thrown"]
             /\ exError' = [exError EXCEPT ![c] = AfterLoop(step.lastError)]
             /\ attempt' = [attempt EXCEPT ![c] = @ + 1]
             /\ UNCHANGED exResult

\* a direct call of extractRecipeFromImage
CallExtract(c) ==
  /\ exPc[c] = "idle"
  /\ EnterExtract(c)
  /\ UNCHANGED <<bulk, normCall, envVars, scanVars>>

\* attemptExtraction is entered: lines 61 and 103-105
AttemptBegin(c) ==
  /\ exPc[c] = "loop"
  /\ attemptsRun' = [attemptsRun EXCEPT ![c] = @ + 1]
  /\ IF ~apiKeySet
     THEN /\ EndAttempt(c, Threw(Error(NoApiKeyMessage)))
          /\ UNCHANGED modelIdx
     ELSE /\ exPc' = [exPc EXCEPT ![c] = "primary"]
          /\ modelIdx' = [modelIdx EXCEPT ![c] = 1]
          /\ UNCHANGED <<attempt, lastError, exRecipe, exResult, exError, attemptLog>>
  /\ UNCHANGED <<bulk, normCall, envVars, scanVars, reqLog>>

\* the answer is a recipe whose normalized instruction list is empty
ZeroInstructions(r) ==
  /\ ResponseOk(r)
  /\ r.body.kind = "json"
  /\ ~NormalizeThrows(r.body.data)
  /\ InstructionsMissing(validateAndNormalizeRecipe(r.body.data))

Request(flow, c, r) ==
  [flow |-> flow, attempt |-> attempt[c], model |-> modelsToTry[modelIdx[c]],
   net |-> r.net, status |-> r.status, body |-> r.body,
   zeroInstructions |-> flow = "primary" /\ ZeroInstructions(r)]

\* attemptExtraction lines 184-410 for one request of the primary chain,
\* answered r
PrimaryFetch(c, r) ==
  /\ exPc[c] = "primary"
  /\ reqLog' = [reqLog EXCEPT ![c] = Append(@, Request("primary", c, r))]
  /\ IF r.net = "rejected"
     THEN /\ EndAttempt(c, Threw(Error(FetchFailedMessage)))
          /\ UNCHANGED modelIdx
     ELSE IF ResponseOk(r)
     THEN IF ~ParsePrimary(r.body).threw /\ Len(MissingFields(ParsePrimary(r.body).value)) > 0
          THEN /\ exPc' = [exPc EXCEPT ![c] = "nutrition"]
               /\ exRecipe' = [exRecipe EXCEPT ![c] = ParsePrimary(r.body).value]
               /\ modelIdx' = [modelIdx EXCEPT ![c] = 1]
               /\ UNCHANGED <<attempt, lastError, exResult, exError, attemptLog>>
          ELSE /\ EndAttempt(c, ParsePrimary(r.body))
               /\ UNCHANGED modelIdx
     ELSE IF TriesNextModel(r.status) /\ modelIdx[c] < Len(modelsToTry)
     THEN /\ modelIdx' = [modelIdx EXCEPT ![c] = @ + 1]
          /\ UNCHANGED <<exPc, attempt, lastError, exRecipe, exResult, exError, attemptLog>>
     ELSE /\ EndAttempt(c, Threw(ResponseError(r)))
          /\ UNCHANGED modelIdx
  /\ UNCHANGED <<bulk, normCall, envVars, scanVars, attemptsRun>>

\* estimateNutritionFromIngredients lines 558-788 for one request of its
\* chain, answered r, and the merge of attemptExtraction lines 380-410
NutritionFetch(c, r) ==
  /\ exPc[c] = "nutrition"
  /\ reqLog' = [reqLog EXCEPT ![c] = Append(@, Request("nutrition", c, r))]
  /\ IF r.net = "answered" /\ ~ResponseOk(r) /\ TriesNextModel(r.status)
        /\ modelIdx[c] < Len(modelsToTry)
     THEN /\ modelIdx' = [modelIdx EXCEPT ![c] = @ + 1]
          /\ UNCHANGED <<exPc, attempt, lastError, exRecipe, exResult, exError, attemptLog>>
     ELSE /\ EndAttempt(c, Returned(MergeNutrition(exRecipe[c],
                  EstimateFromResponse(r, ServingsUsed(exRecipe[c]), MissingFields(exRecipe[c])))))
          /\ UNCHANGED modelIdx
  /\ UNCHANGED <<bulk, normCall, envVars, scanVars, attemptsRun>>

(***************************************************************************)
(* api/scan/route.ts: POST                                                 *)
(***************************************************************************)
Extracting == {c \in Callers : scanPc[c] = "extracting"}

\* lines 16-36: the request gets as far as getCachedRecipe
ReachesLookup(req) == req.session # NoUser /\ req.named /\ req.exists

\* lines 38-39: what getCachedRecipe may return to this request
LookupResults(req, dbUp) ==
  IF ReachesLookup(req) THEN getCachedRecipe(store, req.fileHash, dbUp) ELSE {Null}

\* lines 16-118: up to the response sent without extraction or the call of
\* extractRecipeFromImage; `cached` is what getCachedRecipe returned
ScanBegin(c, req, cached) ==
  /\ scanPc[c] = "idle"
  /\ exPc[c] = "idle"
  /\ scanReq' = [scanReq EXCEPT ![c] = req]
  /\ scanCached' = [scanCached EXCEPT ![c] = cached]
  /\ IF EarlyResponse(req, cached, apiKeySet) # NoResponse
     THEN /\ scanPc' = [scanPc EXCEPT ![c] = "responded"]
          /\ scanResp' = [scanResp EXCEPT ![c] = EarlyResponse(req, cached, apiKeySet)]
          /\ UNCHANGED exVars
     ELSE /\ nextId + Cardinality(Extracting) <= MaxRows
          /\ scanPc' = [scanPc EXCEPT ![c] = "extracting"]
          /\ scanResp' = [scanResp EXCEPT ![c] = NoResponse]
          /\ EnterExtract(c)
  /\ UNCHANGED <<bulk, normCall, envVars>>

\* lines 119-151: extractRecipeFromImage returned or threw; saveCachedRecipe
\* creates the row when the database accepts the write
ScanFinish(c, dbUp) ==
  /\ scanPc[c] = "extracting"
  /\ exPc[c] \in {"returned", "thrown"}
  /\ scanPc' = [scanPc EXCEPT ![c] = "responded"]
  /\ exPc' = [exPc EXCEPT ![c] = "idle"]
  /\ IF exPc[c] = "thrown"
     THEN /\ scanResp' = [scanResp EXCEPT ![c] = ExtractionFailedResponse(exError[c])]
          /\ UNCHANGED <<store, nextId, cacheWritten>>
     ELSE /\ scanResp' = [scanResp EXCEPT ![c] = SuccessResponse(exResult[c], ~dbUp)]
          /\ IF dbUp
             THEN LET row == CacheRow(nextId, scanReq[c].fileHash, exResult[c],
                                      scanReq[c].session)
                  IN /\ store' = store \cup {row}
                     /\ nextId' = nextId + 1
                     /\ cacheWritten' =
                          [cacheWritten EXCEPT ![scanReq[c].fileHash] =
                             IF @ = Null THEN CachedRecipe(row) ELSE @]
             ELSE UNCHANGED <<store, nextId, cacheWritten>>
  /\ UNCHANGED <<bulk, normCall, apiKeySet, lastStatus, lastRows, scanReq, scanCached, attempt, lastError, modelIdx,
                 exRecipe, exResult, exError, attemptsRun, reqLog, attemptLog>>

\* the request is over: its locals are gone and the caller may send the next
ScanReset(c) ==
  /\ scanPc[c] = "responded"
  /\ scanPc' = [scanPc EXCEPT ![c] = "idle"]
  /\ scanReq' = [scanReq EXCEPT ![c] = Null]
  /\ scanCached' = [scanCached EXCEPT ![c] = Null]
  /\ scanResp' = [scanResp EXCEPT ![c] = NoResponse]
  /\ FreshLocals(c)
  /\ exPc' = [exPc EXCEPT ![c] = "idle"]
  /\ UNCHANGED <<bulk, normCall, envVars>>

(***************************************************************************)
(* api/recipes/route.ts POST, api/recipes/[id]/route.ts PUT and DELETE     *)
(***************************************************************************)
\* api/recipes/route.ts lines 22-27 and 80-85: a row as the list and the
\* create response show it
ListedRecipe(row) ==
  [row EXCEPT !.ingredients = JSONparse(@),
              !.instructions = JSONparse(@),
              !.nutrition = IF Truthy(@) THEN JSONparse(@) ELSE Null]

\* GET lines 1188-1210 and PUT lines 1328-1345: a row as the response for
\* one recipe shows it; only GET defaults the three originalFile fields
DetailedRecipe(row, defaultsFile) ==
  LET nutritionData == IF Truthy(row.nutrition) THEN JSONparse(row.nutrition) ELSE Null
      shown == [row EXCEPT
                  !.ingredients = JSONparse(@),
                  !.instructions = JSONparse(@),
                  !.nutrition = IF Truthy(nutritionData)
                                THEN Obj([calories |-> Get(nutritionData, "calories"),
                                          protein_g |-> Get(nutritionData, "protein_g"),
                                          fat_g |-> Get(nutritionData, "fat_g"),
                                          carbs_g |-> Get(nutritionData, "carbs_g")])
                                ELSE Null,
                  !.nutrition_ai_estimated = OrElse(@, Bool(FALSE)),
                  !.typeOfDish = IF Truthy(@) THEN JSONparse(@) ELSE Null,
                  !.methodOfCooking = OrElse(@, Null),
                  !.userNotes = OrElse(@, Null),
                  !.authorsNotes = OrElse(@, Null),
                  !.originalFile = IF defaultsFile THEN OrElse(@, Null) ELSE @,
                  !.originalFileName = IF defaultsFile THEN OrElse(@, Null) ELSE @,
                  !.originalFileType = IF defaultsFile THEN OrElse(@, Null) ELSE @]
  IN [f \in DOMAIN shown \cup {"nutrition_servings_used"} |->
        IF f = "nutrition_servings_used"
        THEN OrElse(GetOpt(nutritionData, "_servings_used"), Null)
        ELSE shown[f]]

\* variant that finds the row by its id alone
RowsWithId(id, session) == {row \in store : row.id = id}

\* findFirst({ where: { id, userId } })
OwnRows(id, session) == {row \in store : row.id = id /\ row.userId = session}

\* api/recipes/route.ts lines 8-35
RecipeList(session) ==
  /\ IF session = NoUser
     THEN /\ lastStatus' = 401
          /\ lastRows' = {}
     ELSE /\ lastStatus' = 200
          /\ lastRows' = {ListedRecipe(row) : row \in {w \in store : w.userId = session}}
  /\ UNCHANGED <<bulk, normCall, apiKeySet, store, nextId, cacheWritten, exVars, scanVars>>

\* api/recipes/route.ts lines 37-93
RecipePost(session, body) ==
  /\ IF session = NoUser
     THEN /\ lastStatus' = 401
          /\ lastRows' = {}
          /\ UNCHANGED <<store, nextId>>
     ELSE IF ~Truthy(Get(body, "recipe_name"))
     THEN /\ lastStatus' = 400
          /\ lastRows' = {}
          /\ UNCHANGED <<store, nextId>>
     ELSE /\ nextId + Cardinality(Extracting) <= MaxRows
          /\ lastStatus' = 201
          /\ lastRows' = {ListedRecipe(PostRow(nextId, body, session))}
          /\ store' = store \cup {PostRow(nextId, body, session)}
          /\ nextId' = nextId + 1
  /\ UNCHANGED <<bulk, normCall, apiKeySet, cacheWritten, exVars, scanVars>>

\* GET lines 1163-1217
RecipeGet(session, id) ==
  /\ IF session = NoUser
     THEN /\ lastStatus' = 401
          /\ lastRows' = {}
     ELSE IF OwnRows(id, session) = {}
     THEN /\ lastStatus' = 404
          /\ lastRows' = {}
     ELSE /\ lastStatus' = 200
          /\ lastRows' = {DetailedRecipe(row, TRUE) : row \in OwnRows(id, session)}
  /\ UNCHANGED <<bulk, normCall, apiKeySet, store, nextId, cacheWritten, exVars, scanVars>>

\* PUT lines 1219-1353
RecipePut(session, id, body) ==
  /\ IF session = NoUser
     THEN /\ lastStatus' = 401
          /\ lastRows' = {}
          /\ UNCHANGED store
     ELSE IF OwnRows(id, session) = {}
     THEN /\ lastStatus' = 404
          /\ lastRows' = {}
          /\ UNCHANGED store
     ELSE /\ lastStatus' = 200
          /\ lastRows' = {DetailedRecipe(PutRow(row, body), FALSE) : row \in OwnRows(id, session)}
          /\ store' = {IF row.id = id THEN PutRow(row, body) ELSE row : row \in store}
  /\ UNCHANGED <<bulk, normCall, apiKeySet, nextId, cacheWritten, exVars, scanVars>>

\* DELETE lines 1355-1393
RecipeDelete(session, id) ==
  /\ IF session = NoUser
     THEN /\ lastStatus' = 401
          /\ UNCHANGED store
     ELSE IF OwnRows(id, session) = {}
     THEN /\ lastStatus' = 404
          /\ UNCHANGED store
     ELSE /\ lastStatus' = 200
          /\ store' = {row \in store : row.id # id}
  /\ lastRows' = {}
  /\ UNCHANGED <<bulk, normCall, apiKeySet, nextId, cacheWritten, exVars, scanVars>>

(***************************************************************************)
(* scan/bulk/page.tsx: handleFileSelect.  Each await of the handler ends   *)
(* one step: the upload of files[i], then its scan.                        *)
(***************************************************************************)
\* `recipe-${i}`
RecipeId(i) == <<"r", "e", "c", "i", "p", "e", "-">> \o Digits(i)

\* lines 122-153, 193-225 and 290-323: the entry for a file that failed
ErrorEntry(i, name, error) ==
  [id |-> RecipeId(i), originalName |-> name, scanned |-> FALSE, error |-> error]

\* lines 244-275: the entry for a scanned file
ScannedEntry(i, name) ==
  [id |-> RecipeId(i), originalName |-> name, scanned |-> TRUE, error |-> ""]

\* variant in which an error entry ends the loop
StopsAtError(b, entry) ==
  [b EXCEPT !.recipes = Append(@, entry),
            !.i = @ + 1,
            !.at = IF b.i + 1 < Len(b.files) /\ entry.scanned THEN "upload" ELSE "idle",
            !.isProcessing = b.i + 1 < Len(b.files) /\ entry.scanned]

\* setRecipes(prev => [...prev, entry]), then the end of the iteration: the
\* loop goes on to the next file, or ends and line 334 clears isProcessing
Appended(b, entry) ==
  [b EXCEPT !.recipes = Append(@, entry),
            !.i = @ + 1,
            !.at = IF b.i + 1 < Len(b.files) THEN "upload" ELSE "idle",
            !.isProcessing = b.i + 1 < Len(b.files)]

\* lines 89-99: files are selected; the input is shown only while nothing
\* is processed and recipes is empty (line 522), and an empty selection
\* returns at once
BulkSelect(files) ==
  /\ ~bulk.isProcessing
  /\ bulk.recipes = <<>>
  /\ bulk' = IF Len(files) = 0 THEN bulk
             ELSE [files |-> files, i |-> 0, at |-> "upload", recipes |-> <<>>,
                   isProcessing |-> TRUE]
  /\ UNCHANGED <<normCall, envVars, exVars, scanVars>>

\* lines 101-160: the upload of files[i] is answered.  The fetch or the
\* reading of the answer throws (caught at line 289), the answer is not ok,
\* or it is ok and the scan is sent
BulkUpload(outcome) ==
  /\ bulk.at = "upload"
  /\ LET name == bulk.files[bulk.i + 1]
     IN bulk' =
          CASE outcome.kind = "threw" ->
                 Appended(bulk, ErrorEntry(bulk.i, name, outcome.error))
            [] outcome.kind = "rejected" ->
                 Appended(bulk, ErrorEntry(bulk.i, name,
                                           IF outcome.error # "" THEN outcome.error
                                           ELSE "Upload failed"))
            [] outcome.kind = "ok" -> [bulk EXCEPT !.at = "scan"]
  /\ UNCHANGED <<normCall, envVars, exVars, scanVars>>

\* lines 162-287: the scan of files[i] is answered.  The fetch or the
\* reading of the answer throws, also when an ok answer holds no recipeData
\* (line 247 reads a property of undefined); the answer is not ok; or the
\* scanned recipe is appended
BulkScan(outcome) ==
  /\ bulk.at = "scan"
  /\ LET name == bulk.files[bulk.i + 1]
     IN bulk' =
          CASE outcome.kind = "threw" ->
                 Appended(bulk, ErrorEntry(bulk.i, name, outcome.error))
            [] outcome.kind = "rejected" ->
                 Appended(bulk, ErrorEntry(bulk.i, name,
                                           IF outcome.error # "" THEN outcome.error
                                           ELSE "Scan failed"))
            [] outcome.kind = "ok" -> Appended(bulk, ScannedEntry(bulk.i, name))
  /\ UNCHANGED <<normCall, envVars, exVars, scanVars>>

(***************************************************************************)
(* The answers the model service may give                                  *)
(***************************************************************************)
TextMix == <<"M", "i", "x">>
TextBoil == <<" ", "B", "o", "i", "l", " ">>
TextBlank == <<" ", "\n">>

RawInstructions ==
  { Arr(<<>>),
    Null,
    Arr(<<Obj([step_number |-> Num(1), text |-> Str(TextMix)]),
          Obj([step_number |-> Num(2), text |-> Str(TextBoil)])>>),
    Arr(<<Obj([step_number |-> Num(1), text |-> Str(TextBlank)])>>),
    Arr(<<Obj([step_number |-> Num(1), text |-> Str(<<>>)])>>),
    Arr(<<Str(TextBlank), Str(TextMix)>>),
    Arr(<<Str(<<>>), Num(0)>>),
    Arr(<<Null>>) }

RawNutritions ==
  { Null,
    Obj([calories |-> Num(200), protein_g |-> Null, fat_g |-> Null, carbs_g |-> Null]),
    Obj([calories |-> Num(0), protein_g |-> Null, fat_g |-> Num(9), carbs_g |-> Null]),
    Obj([calories |-> Num(0), protein_g |-> NumHalf(12), fat_g |-> Num(9), carbs_g |-> Num(30)]) }

RawServings == {Null, Num(6)}

PrimaryPayload(instructions, nutrition, servings) ==
  Obj([recipe_name |-> Str(<<"S", "O", "U", "P">>),
       author |-> Null,
       description |-> Null,
       link |-> Null,
       servings |-> servings,
       prep_time_minutes |-> Num(10),
       cook_time_minutes |-> Null,
       ingredients |-> Arr(<<Obj([quantity |-> Str(<<"2">>), item |-> Str(<<"e", "g", "g">>)])>>),
       instructions |-> instructions,
       nutrition |-> nutrition,
       genreOfFood |-> Str(<<"T", "h", "a", "i">>),
       typeOfDish |-> Arr(<<Str(<<"S", "o", "u", "p">>)>>),
       methodOfCooking |-> Null,
       authorsNotes |-> Null])

ServingTexts ==
  {Str(<<"4", "-", "6">>), Str(<<"4", " ", "t", "o", " ", "6">>), Str(<<"4">>),
   Str(<<"a", " ", "f", "e", "w">>)}

PrimaryPayloads ==
  {PrimaryPayload(i, n, Num(6)) : i \in RawInstructions, n \in RawNutritions}
    \cup {PrimaryPayload(i, Null, Null) : i \in RawInstructions}
    \cup {PrimaryPayload(Arr(<<Str(TextMix)>>), Null, s) : s \in ServingTexts}
    \cup {Null}

QuotaTexts ==
  { ErrorText(FALSE, "", <<>>),
    ErrorText(TRUE, "", <<>>),
    ErrorText(TRUE, "Quota exceeded", <<"34s">>),
    ErrorText(TRUE, "Quota exceeded", <<"", "34s">>) }

ErrorAnswers ==
  {Rejected, Answer(404, ErrorText(TRUE, "model not found", <<>>)),
   Answer(500, ErrorText(FALSE, "", <<>>))}
    \cup {Answer(429, e) : e \in QuotaTexts}

PrimaryAnswers ==
  ErrorAnswers \cup {Answer(200, NoCandidates), Answer(200, BadJson)}
    \cup {Answer(200, Json(d)) : d \in PrimaryPayloads}

RegexBody(calories, protein_g, fat_g, carbs_g) ==
  [kind |-> "badjson",
   regex |-> [calories |-> calories, protein_g |-> protein_g, fat_g |-> fat_g,
              carbs_g |-> carbs_g]]

NutritionBodies ==
  { NoCandidates,
    Json(Null),
    Json(Obj([calories |-> Num(999), protein_g |-> Num(10), fat_g |-> Num(5), carbs_g |-> Num(20)])),
    Json(Obj([calories |-> NumHalf(310), protein_g |-> Str(<<"1", "0">>)])),
    Json(Obj([note |-> Str(<<"n", "/", "a">>)])),
    RegexBody(Num(150), Null, Null, Null),
    RegexBody(Null, Null, Null, Null) }

NutritionAnswers == ErrorAnswers \cup {Answer(200, b) : b \in NutritionBodies}

(***************************************************************************)
(* SpecExtract: one caller calls extractRecipeFromImage                    *)
(***************************************************************************)
InitExtract == apiKeySet \in BOOLEAN /\ ExInit /\ ScanInit /\ StoreInit /\ NormInit /\ BulkInit

NextExtract ==
  \/ CallExtract("c1")
  \/ AttemptBegin("c1")
  \/ \E r \in PrimaryAnswers : PrimaryFetch("c1", r)
  \/ \E r \in NutritionAnswers : NutritionFetch("c1", r)

SpecExtract == InitExtract /\ [][NextExtract]_vars

(***************************************************************************)
(* SpecScan: one client at a time posts to /api/scan while the recipe      *)
(* routes create, update and delete rows                                   *)
(***************************************************************************)
ScanRequest(session, named, exists, fileHash, debug, pdf) ==
  [session |-> session, named |-> named, exists |-> exists, fileHash |-> fileHash,
   debug |-> debug, pdf |-> pdf]

ScanRequests ==
  { ScanRequest("u1", TRUE, TRUE, Hash1, FALSE, "image"),
    ScanRequest("u1", TRUE, TRUE, Hash1, TRUE, "image"),
    ScanRequest("u2", TRUE, TRUE, Hash1, FALSE, "pages"),
    ScanRequest("u1", TRUE, TRUE, Hash2, FALSE, "nopages"),
    ScanRequest("u1", TRUE, TRUE, Hash2, FALSE, "throws"),
    ScanRequest(NoUser, TRUE, TRUE, Hash1, FALSE, "image"),
    ScanRequest("u1", FALSE, TRUE, Hash1, FALSE, "image"),
    ScanRequest("u1", TRUE, FALSE, Hash1, FALSE, "image") }

ScanPrimaryAnswers ==
  { Answer(500, ErrorText(FALSE, "", <<>>)),
    Answer(200, Json(PrimaryPayload(Arr(<<>>), Null, Null))),
    Answer(200, Json(PrimaryPayload(Arr(<<Str(TextBlank), Str(TextMix)>>), Null, Num(6)))) }

ScanNutritionAnswers ==
  { Answer(200, Json(Obj([calories |-> Num(999), protein_g |-> Num(10), fat_g |-> Num(5),
                          carbs_g |-> Num(20)]))) }

RecipeBodies ==
  { Obj([recipe_name |-> Str(<<"P", "i", "e">>), fileHash |-> Hash1,
         nutrition |-> Obj([calories |-> Num(1)])]),
    Obj([servings |-> Num(2)]) }

UpdateBodies ==
  { Obj([nutrition |-> Obj([calories |-> Num(5), _ai_estimated |-> Bool(TRUE)]),
         instructions |-> Arr(<<>>)]) }

Sessions == {NoUser} \cup Users

InitScan == apiKeySet \in BOOLEAN /\ ExInit /\ ScanInit /\ StoreInit /\ NormInit /\ BulkInit

NextScan ==
  \/ \E req \in ScanRequests, dbUp \in BOOLEAN :
       \E cached \in LookupResults(req, dbUp) : ScanBegin("c1", req, cached)
  \/ AttemptBegin("c1")
  \/ \E r \in ScanPrimaryAnswers : PrimaryFetch("c1", r)
  \/ \E r \in ScanNutritionAnswers : NutritionFetch("c1", r)
  \/ \E dbUp \in BOOLEAN : ScanFinish("c1", dbUp)
  \/ ScanReset("c1")
  \/ \E session \in Sessions, body \in RecipeBodies : RecipePost(session, body)
  \/ \E session \in Sessions, id \in 1..MaxRows, body \in UpdateBodies :
       RecipePut(session, id, body)
  \/ \E session \in Sessions, id \in 1..MaxRows : RecipeDelete(session, id)

SpecScan == InitScan /\ [][NextScan]_vars

(***************************************************************************)
(* SpecRecipes: the recipe routes called by two users and by a caller      *)
(* without a session                                                       *)
(***************************************************************************)
Egg == Obj([quantity |-> Str(<<"2">>), item |-> Str(<<"e", "g", "g">>)])

\* the bodies of PUT requests: one that gives a single field, one that gives
\* values, one that gives fields as null or empty, one that gives nothing
PutBodies ==
  { Obj([servings |-> Num(3)]),
    Obj([author |-> Str(<<"A", "n", "n">>),
         ingredients |-> Arr(<<Egg>>),
         instructions |-> Arr(<<Obj([step_number |-> Num(1), text |-> Str(TextMix)])>>),
         nutrition |-> Obj([calories |-> Num(5), _ai_estimated |-> Bool(TRUE),
                            _servings_used |-> Num(2)]),
         genreOfFood |-> Str(<<"T", "h", "a", "i">>),
         typeOfDish |-> Arr(<<Str(<<"S", "o", "u", "p">>)>>),
         userNotes |-> Str(TextMix)]),
    Obj([author |-> Str(<<>>), servings |-> Null, ingredients |-> Arr(<<>>),
         instructions |-> Arr(<<>>), nutrition |-> Null, genreOfFood |-> Null,
         typeOfDish |-> Null, userNotes |-> Null]),
    Obj([recipe_name |-> Undefined]) }

InitRecipes == apiKeySet = TRUE /\ ExInit /\ ScanInit /\ StoreInit /\ NormInit /\ BulkInit

NextRecipes ==
  \/ \E session \in Sessions : RecipeList(session)
  \/ \E session \in Sessions, body \in RecipeBodies : RecipePost(session, body)
  \/ \E session \in Sessions, id \in 1..MaxRows : RecipeGet(session, id)
  \/ \E session \in Sessions, id \in 1..MaxRows, body \in PutBodies :
       RecipePut(session, id, body)
  \/ \E session \in Sessions, id \in 1..MaxRows : RecipeDelete(session, id)

SpecRecipes == InitRecipes /\ [][NextRecipes]_vars

(***************************************************************************)
(* SpecRace: two callers scan files with the same content hash, their      *)
(* requests interleaved step by step                                       *)
(***************************************************************************)
RaceRequests ==
  { ScanRequest("u1", TRUE, TRUE, Hash1, FALSE, "image"),
    ScanRequest("u2", TRUE, TRUE, Hash1, FALSE, "image") }

RacePrimaryAnswers ==
  { Answer(500, ErrorText(FALSE, "", <<>>)),
    Answer(200, Json(PrimaryPayload(Arr(<<Str(TextMix)>>), Null, Num(6)))) }

InitRace == apiKeySet = TRUE /\ ExInit /\ ScanInit /\ StoreInit /\ NormInit /\ BulkInit

NextRace ==
  \E c \in Callers :
    \/ \E req \in RaceRequests, dbUp \in BOOLEAN :
         \E cached \in LookupResults(req, dbUp) : ScanBegin(c, req, cached)
    \/ AttemptBegin(c)
    \/ \E r \in RacePrimaryAnswers : PrimaryFetch(c, r)
    \/ \E r \in ScanNutritionAnswers : NutritionFetch(c, r)
    \/ \E dbUp \in BOOLEAN : ScanFinish(c, dbUp)
    \/ ScanReset(c)

SpecRace == InitRace /\ [][NextRace]_vars

RECURSIVE SeqsUpTo(_, _)
SeqsUpTo(S, n) ==
  IF n = 0 THEN {<<>>}
  ELSE SeqsUpTo(S, n - 1) \cup {Append(q, x) : q \in {w \in SeqsUpTo(S, n - 1) : Len(w) = n - 1}, x \in S}

(***************************************************************************)
(* SpecBulk: one selection of files on the bulk upload page                *)
(***************************************************************************)
MaxFiles == 3

FileNames == {"soup.png", "pie.pdf"}

Selections == SeqsUpTo(FileNames, MaxFiles)

\* how a fetch of the handler may end: it throws, it is answered with a
\* status that is not ok (with or without an error text), or it is
\* answered ok
FetchOutcomes ==
  { [kind |-> "threw", error |-> "Failed to fetch"],
    [kind |-> "rejected", error |-> "Unauthorized"],
    [kind |-> "rejected", error |-> ""],
    [kind |-> "ok", error |-> ""] }

InitBulk == apiKeySet = TRUE /\ ExInit /\ ScanInit /\ StoreInit /\ NormInit /\ BulkInit

NextBulk ==
  \/ \E files \in Selections : BulkSelect(files)
  \/ \E outcome \in FetchOutcomes : BulkUpload(outcome)
  \/ \E outcome \in FetchOutcomes : BulkScan(outcome)

SpecBulk == InitBulk /\ [][NextBulk]_vars

(***************************************************************************)
(* SpecNormalize: validateAndNormalizeRecipe and validateTypeOfDishArray   *)
(* called on the values a parsed model answer may hold                     *)
(***************************************************************************)
\* validateAndNormalizeRecipe(data) is called: it throws a TypeError or
\* returns the normalized recipe
CallNormalize(data) ==
  /\ normCall.fn = "none"
  /\ normCall' = NormCall("validateAndNormalizeRecipe", data, NormalizeThrows(data),
                          IF NormalizeThrows(data) THEN Null
                          ELSE validateAndNormalizeRecipe(data))
  /\ UNCHANGED <<bulk, envVars, exVars, scanVars>>

\* validateTypeOfDishArray(values) is called on an array
CallValidateTypeOfDish(values) ==
  /\ normCall.fn = "none"
  /\ normCall' = NormCall("validateTypeOfDishArray", Arr(values), FALSE,
                          Arr(validateTypeOfDishArray(values)))
  /\ UNCHANGED <<bulk, envVars, exVars, scanVars>>

Soup == Str(<<"S", "o", "u", "p">>)
Bowl == Str(<<"B", "o", "w", "l">>)
Salad == Str(<<"S", "a", "l", "a", "d">>)
Pasta == Str(<<"P", "a", "s", "t", "a">>)
NotARealType == Str(<<"N", "o", "t", "A", "R", "e", "a", "l", "T", "y", "p", "e">>)

DishCandidates == {Soup, Bowl, Salad, Pasta, NotARealType, Num(5)}

MaxCandidates == 6

\* the candidate lists: every short list, and the longer lists of soups,
\* bowls and unknown values
DishLists ==
  SeqsUpTo(DishCandidates, 4)
    \cup {q \in SeqsUpTo({Soup, Bowl, NotARealType}, MaxCandidates) : Len(q) > 4}
    \cup {<<Soup, NotARealType, Soup, Bowl, Salad, Pasta>>,
          <<NotARealType, Pasta, Salad, Num(5), Bowl, Soup>>}

RawNames == {Str(<<"S", "O", "U", "P">>), Num(5), Undefined}
RawCounts == {Null, Num(4), Num(0), Num(-2), NumHalf(4), Str(<<"4", "-", "6">>)}
RawGenres == {Str(<<"T", "h", "a", "i">>), Str(<<"M", "a", "r", "t", "i", "a", "n">>), Num(3), Undefined}
RawMethods == {Str(<<"O", "v", "e", "n">>), Str(<<"o", "v", "e", "n">>), Null}
RawDishes == {Arr(<<Soup, NotARealType, Soup, Bowl, Salad>>), Arr(<<Num(5)>>), Soup, Null}
RawIngredients ==
  {Arr(<<Obj([quantity |-> Num(2), item |-> Str(<<"e", "g", "g">>)])>>), Arr(<<Null>>),
   Str(<<"e", "g", "g">>)}
RawSteps == {Arr(<<Obj([text |-> Str(TextMix)])>>), Arr(<<Null>>), Undefined}

ChickenSoupCaps == <<"C", "H", "I", "C", "K", "E", "N", " ", "S", "O", "U", "P">>
ChickenSoupHalf == <<"C", "H", "I", "C", "K", "E", "N", " ", "s", "o", "u", "p">>
ChickenSoupMixed == <<"C", "h", "i", "c", "k", "e", "n", " ", "S", "o", "u", "p">>

MaxTitleLen == 4

\* the texts given as recipe_name or author: the three of the title-case
\* examples and every text of up to MaxTitleLen characters over a capital,
\* a small letter, a space and a digit
TitleTexts ==
  {ChickenSoupCaps, ChickenSoupHalf, ChickenSoupMixed}
    \cup SeqsUpTo({"A", "b", " ", "1"}, MaxTitleLen)

TitlePayloads ==
  {Obj([recipe_name |-> Str(n), author |-> Null]) : n \in TitleTexts}
    \cup {Obj([recipe_name |-> Str(TextMix), author |-> Str(a)]) : a \in TitleTexts}

\* answers that differ in their instructions alone: entries without step
\* numbers, the first or the middle one blank, and entries with the step
\* numbers 0, -1 and 2.5
StepPayloads ==
  {Obj([recipe_name |-> Str(TextMix), instructions |-> t]) :
     t \in {Arr(<<Str(TextBlank), Str(TextMix)>>),
            Arr(<<Str(TextMix), Str(TextBoil)>>),
            Arr(<<Obj([text |-> Str(TextMix)]), Obj([text |-> Str(<<>>)]),
                  Obj([text |-> Str(TextBoil)])>>),
            Arr(<<Obj([step_number |-> Num(0), text |-> Str(TextMix)])>>),
            Arr(<<Obj([step_number |-> Num(-1), text |-> Str(TextMix)]),
                  Obj([step_number |-> NumHalf(2), text |-> Str(TextBoil)])>>),
            Arr(<<Obj([step_number |-> Num(3), text |-> Str(TextMix)])>>)}}

NormalizePayloads ==
  {Obj([recipe_name |-> n, servings |-> s, prep_time_minutes |-> p, cook_time_minutes |-> Null,
        genreOfFood |-> g, methodOfCooking |-> m, typeOfDish |-> d, ingredients |-> i,
        instructions |-> t]) :
     n \in RawNames, s \in RawCounts, p \in {Num(10), Num(-5)}, g \in RawGenres,
     m \in RawMethods, d \in RawDishes, i \in RawIngredients, t \in RawSteps}
    \cup {Null, Undefined, Num(1), Str(TextMix), Arr(<<>>), Obj([cook_time_minutes |-> NumHalf(7)])}
    \cup TitlePayloads
    \cup StepPayloads

InitNormalize == apiKeySet = TRUE /\ ExInit /\ ScanInit /\ StoreInit /\ NormInit /\ BulkInit

NextNormalize ==
  \/ \E data \in NormalizePayloads : CallNormalize(data)
  \/ \E values \in DishLists : CallValidateTypeOfDish(values)

SpecNormalize == InitNormalize /\ [][NextNormalize]_vars

(***************************************************************************)
(* Properties of extractRecipeFromImage, checked under SpecExtract         *)
(***************************************************************************)
Done(c) == exPc[c] \in {"returned", "thrown"}

\* every answer the model service gave to the call is a recipe whose
\* normalized instruction list is empty
AllZeroInstructions(c) ==
  \A i \in 1..Len(reqLog[c]) : reqLog[c][i].zeroInstructions

\* C1: against a model whose every response normalizes to zero instructions,
\* one call of extractRecipeFromImage never runs attemptExtraction more than
\* twice, never returns a recipe, and ends, after exactly two runs and two
\* requests, by throwing
C1_RetryTermination ==
  \A c \in Callers :
    (apiKeySet /\ AllZeroInstructions(c)) =>
      /\ attemptsRun[c] <= 2
      /\ exPc[c] # "returned"
      /\ exPc[c] = "thrown" => (attemptsRun[c] = 2 /\ Len(reqLog[c]) = 2)
      /\ (attemptsRun[c] = 2 /\ Len(reqLog[c]) = 2) => exPc[c] = "thrown"

C1_Witness ==
  /\ apiKeySet
  /\ exPc["c1"] = "thrown"
  /\ Len(reqLog["c1"]) = 2
  /\ AllZeroInstructions("c1")

\* C2: attempt 2 is started only when attempt 1 ended with the
\* instructions-missing failure; after any other failure of attempt 1 there
\* is no second run of attemptExtraction
C2_RetryOnlyForMissingInstructions ==
  \A c \in Callers :
    attemptsRun[c] >= 2 =>
      (attemptLog[c][1].threw /\ attemptLog[c][1].message = RetryMessage)

\* C3: a recipe that extractRecipeFromImage returns has at least one
\* instruction and the text of each is non-empty after trimming
C3_InstructionInvariant ==
  \A c \in Callers :
    exPc[c] = "returned" =>
      /\ IsArray(exResult[c].instructions)
      /\ Len(exResult[c].instructions.a) >= 1
      /\ \A i \in 1..Len(exResult[c].instructions.a) :
           /\ Get(exResult[c].instructions.a[i], "text").t = "str"
           /\ Trim(Get(exResult[c].instructions.a[i], "text").s) # <<>>

\* a recipe was returned although the model's list held a blank entry, which
\* the normalizer dropped: the one instruction left is the second entry
C3_Witness ==
  /\ exPc["c1"] = "returned"
  /\ exResult["c1"].instructions =
       Arr(<<Obj([step_number |-> Num(2), text |-> Str(TextMix)])>>)

\* C9: when a primary request of the call was answered 429, the call ends by
\* throwing the quota error
C9_QuotaErrorSurfaced ==
  \A c \in Callers :
    (Done(c) /\ \E i \in 1..Len(reqLog[c]) :
                  reqLog[c][i].flow = "primary" /\ reqLog[c][i].status = 429) =>
      /\ exPc[c] = "thrown"
      /\ Len(exError[c].message) >= 1
      /\ exError[c].message[1] = QuotaPrefix

\* request i of the call goes on with the chain of request i - 1
ContinuesChain(c, i) ==
  /\ i > 1
  /\ reqLog[c][i].flow = reqLog[c][i - 1].flow
  /\ reqLog[c][i].attempt = reqLog[c][i - 1].attempt

\* C10: in the primary flow and in the nutrition sub-flow alike, a chain
\* starts with gemini-3-flash-preview, and gemini-2.5-flash is requested only
\* right after gemini-3-flash-preview answered 404; after a success or any
\* other failure no further model is requested
C10_ModelChainOrder ==
  \A c \in Callers :
    \A i \in 1..Len(reqLog[c]) :
      IF ContinuesChain(c, i)
      THEN /\ reqLog[c][i - 1].net = "answered"
           /\ reqLog[c][i - 1].status = 404
           /\ reqLog[c][i - 1].model = "gemini-3-flash-preview"
           /\ reqLog[c][i].model = "gemini-2.5-flash"
      ELSE reqLog[c][i].model = "gemini-3-flash-preview"

\* both flows fell back to the second model, and a chain ended on an error
\* other than 404 at the first model
C10_Witness ==
  /\ \E i \in 2..Len(reqLog["c1"]) :
       reqLog["c1"][i].flow = "primary" /\ ContinuesChain("c1", i)
  /\ \E i \in 2..Len(reqLog["c1"]) :
       reqLog["c1"][i].flow = "nutrition" /\ ContinuesChain("c1", i)
  /\ \E i \in 2..Len(reqLog["c1"]) :
       reqLog["c1"][i - 1].status = 500 /\ ~ContinuesChain("c1", i)

(***************************************************************************)
(* Properties of the scan route and the cache, checked under SpecScan      *)
(***************************************************************************)
\* the last answer the model service gave to the call was to attempt 2 and
\* normalizes to zero instructions
SecondAttemptWithoutInstructions(c) ==
  /\ Len(reqLog[c]) >= 1
  /\ reqLog[c][Len(reqLog[c])].attempt = 2
  /\ reqLog[c][Len(reqLog[c])].zeroInstructions

\* C4: when attempt 2 also yields no instructions, the error thrown by
\* extractRecipeFromImage, and the message of the scan route's response, is
\* the "none were found after multiple attempts" failure of line 71
C4_NoInstructionsFailure ==
  \A c \in Callers :
    (scanPc[c] = "responded" /\ SecondAttemptWithoutInstructions(c)) =>
      /\ exError[c].message = NoInstructionsMessage
      /\ scanResp[c].message = NoInstructionsMessage

\* the normalized fields of two recipes agree; an absent provenance flag
\* counts as false, an absent servings-used as null
SameRecipe(a, b) ==
  /\ \A f \in {"recipe_name", "author", "description", "link", "servings",
               "prep_time_minutes", "cook_time_minutes", "ingredients", "instructions",
               "nutrition", "genreOfFood", "typeOfDish", "methodOfCooking", "authorsNotes"} :
       a[f] = b[f]
  /\ Truthy(a.nutrition_ai_estimated) = Truthy(b.nutrition_ai_estimated)
  /\ Coalesce(a.nutrition_servings_used, Null) = Coalesce(b.nutrition_servings_used, Null)

\* the step is a scan's saveCachedRecipe creating the first row for its hash
SavesFirstRow(c) ==
  /\ scanPc[c] = "extracting"
  /\ scanPc'[c] = "responded"
  /\ store' # store
  /\ ~\E row \in store : row.fileHash = scanReq[c].fileHash

\* C5: after saveCachedRecipe(h, R, owner) on a store with no other row for
\* h, getCachedRecipe(h) returns a recipe equal to R in every normalized
\* field, the provenance flags included
C5_CacheRoundTrip ==
  [][\A c \in Callers :
       SavesFirstRow(c) =>
         \A cached \in getCachedRecipe(store', scanReq[c].fileHash, TRUE) :
           cached # Null /\ SameRecipe(cached, exResult[c])]_vars

\* the step is a scan request whose cache lookup found an entry, debug off
CacheHitStep(c) ==
  /\ scanPc[c] = "idle"
  /\ scanPc'[c] # "idle"
  /\ ReachesLookup(scanReq'[c])
  /\ scanCached'[c] # Null
  /\ ~scanReq'[c].debug

\* C6: on a cache hit with debug off the route responds at once with the
\* entry found and cached: true; it does not enter extractRecipeFromImage,
\* sends no request to the model service and leaves the store as it was
C6_CacheHitShortCircuit ==
  [][\A c \in Callers :
       CacheHitStep(c) =>
         /\ scanPc'[c] = "responded"
         /\ scanResp'[c] = Response(200, TRUE, TRUE, scanCached'[c], <<>>, <<>>)
         /\ scanCached'[c] \in getCachedRecipe(store, scanReq'[c].fileHash, TRUE)
         /\ exPc'[c] = "idle"
         /\ attemptsRun' = attemptsRun
         /\ reqLog' = reqLog
         /\ store' = store
         /\ nextId' = nextId]_vars

\* a scan by another user than the row's owner was served from the cache
C6_Witness ==
  /\ scanPc["c1"] = "responded"
  /\ scanResp["c1"].cached
  /\ scanResp["c1"].recipeData = scanCached["c1"]
  /\ scanCached["c1"] # Null
  /\ \E row \in store :
       row.fileHash = scanReq["c1"].fileHash /\ row.userId # scanReq["c1"].session

\* C7: once a scan has written the entry for hash h, getCachedRecipe(h)
\* returns that payload whatever saves, updates and deletes follow
C7_CachePayloadImmutable ==
  \A h \in FileHashes :
    cacheWritten[h] # Null => getCachedRecipe(store, h, TRUE) = {cacheWritten[h]}

\* the step is a scan whose extraction returned a recipe and whose
\* saveCachedRecipe threw: no row was created
SaveFailedStep(c) ==
  /\ scanPc[c] = "extracting"
  /\ exPc[c] = "returned"
  /\ scanPc'[c] = "responded"
  /\ store' = store

\* C8: when the cache write after a successful extraction fails, the route
\* still answers 200 with success: true, cached: false and the extracted
\* recipe
C8_CacheWriteFailureNonFatal ==
  [][\A c \in Callers :
       SaveFailedStep(c) =>
         scanResp'[c] = Response(200, TRUE, FALSE, exResult[c], <<>>, <<>>)]_vars

\* a scan answered with the extracted recipe although no row was ever created
C8_Witness ==
  /\ scanPc["c1"] = "responded"
  /\ nextId = 1
  /\ store = {}
  /\ scanResp["c1"].status = 200
  /\ scanResp["c1"].success
  /\ ~scanResp["c1"].cached
  /\ scanResp["c1"].recipeData = exResult["c1"]
  /\ exResult["c1"] # Null

(***************************************************************************)
(* Properties of the nutrition sub-flow, checked under SpecExtract         *)
(***************************************************************************)
\* recipe.nutrition?.f ?? null
NutritionValue(recipe, f) == Coalesce(GetOpt(recipe.nutrition, f), Null)

NutritionFieldNames == {"calories", "protein_g", "fat_g", "carbs_g"}

\* the answer that ended the chain the last request of the log belongs to
LastAnswer(log) ==
  [net |-> log[Len(log)].net, status |-> log[Len(log)].status, body |-> log[Len(log)].body]

\* the step ends the nutrition sub-flow of the running attempt
NutritionEnds(c) == exPc[c] = "nutrition" /\ exPc'[c] # "nutrition"

\* the answer's text does not parse as JSON
Unparseable(r) == ResponseOk(r) /\ r.body.kind = "badjson"

\* the sub-flow failed: the fetch was rejected, the answer was an HTTP error
\* (429 included), held no candidate, parsed to null, or did not parse and
\* held no "field": digits pair either
NutritionFailed(r) ==
  \/ r.net = "rejected"
  \/ ~ResponseOk(r)
  \/ r.body.kind = "nocandidates"
  \/ r.body.kind = "json" /\ IsNullish(r.body.data)
  \/ Unparseable(r) /\ \A f \in NutritionFieldNames : r.body.regex[f] = Null

\* the attempt returns the recipe as normalization made it: every field but
\* nutrition unchanged, the four nutrition values unchanged, no flag set
RecipeKept(c) ==
  /\ exPc'[c] = "returned"
  /\ \A f \in DOMAIN exRecipe[c] \ {"nutrition"} : exResult'[c][f] = exRecipe[c][f]
  /\ \A f \in NutritionFieldNames :
       NutritionValue(exResult'[c], f) = NutritionValue(exRecipe[c], f)
  /\ exResult'[c].nutrition_ai_estimated = Undefined
  /\ exResult'[c].nutrition_servings_used = Undefined

AnswerEstimate(c, f) ==
  EstimateFromResponse(LastAnswer(reqLog'[c]), ServingsUsed(exRecipe[c]), NutritionFields)[f]

\* C12: after the nutrition sub-flow each of the four fields holds the value
\* normalization left when that was non-null (0 included), and the estimate
\* only when it was null
C12_MergePrecedence ==
  [][\A c \in Callers :
       NutritionEnds(c) =>
         \A f \in NutritionFieldNames :
           NutritionValue(exResult'[c], f) =
             IF NutritionValue(exRecipe[c], f) # Null
             THEN NutritionValue(exRecipe[c], f)
             ELSE AnswerEstimate(c, f)]_vars

\* existing {200, null, null, null} with estimate {999, 10, 5, 20} gave
\* {200, 10, 5, 20}
C12_Witness ==
  /\ exPc["c1"] = "returned"
  /\ Len(reqLog["c1"]) >= 2
  /\ reqLog["c1"][Len(reqLog["c1"])].flow = "nutrition"
  /\ reqLog["c1"][Len(reqLog["c1"])].body =
       Json(Obj([calories |-> Num(999), protein_g |-> Num(10), fat_g |-> Num(5),
                 carbs_g |-> Num(20)]))
  /\ reqLog["c1"][Len(reqLog["c1"]) - 1].flow = "primary"
  /\ Get(reqLog["c1"][Len(reqLog["c1"]) - 1].body.data, "nutrition") =
       Obj([calories |-> Num(200), protein_g |-> Null, fat_g |-> Null, carbs_g |-> Null])
  /\ exResult["c1"].nutrition =
       Obj([calories |-> Num(200), protein_g |-> Num(10), fat_g |-> Num(5),
            carbs_g |-> Num(20)])

\* the step makes the call return a recipe
Returns(c) == exPc[c] # "returned" /\ exPc'[c] = "returned"

\* the fields that were null after normalization and hold a value in the
\* recipe the step returns
FilledFields(c) ==
  IF exPc[c] = "nutrition"
  THEN {f \in NutritionFieldNames :
          NutritionValue(exRecipe[c], f) = Null /\ NutritionValue(exResult'[c], f) # Null}
  ELSE {}

\* the serving count the estimate was asked for: the normalized servings, or
\* the default when that is null
ServingsAssumed(recipe) ==
  IF recipe.servings = Null THEN Num(DefaultServings) ELSE recipe.servings

\* C13: a returned recipe has nutrition_ai_estimated true exactly when a
\* field that was null after normalization received a non-null estimate, and
\* then nutrition_servings_used is the serving count used for the estimate;
\* otherwise neither flag is set
C13_ProvenanceFlags ==
  [][\A c \in Callers :
       Returns(c) =>
         IF FilledFields(c) # {}
         THEN /\ exResult'[c].nutrition_ai_estimated = Bool(TRUE)
              /\ exResult'[c].nutrition_servings_used = ServingsAssumed(exResult'[c])
         ELSE /\ exResult'[c].nutrition_ai_estimated = Undefined
              /\ exResult'[c].nutrition_servings_used = Undefined]_vars

\* a recipe without servings was returned with estimated values: the flag is
\* set and the serving count recorded is the default
C13_Witness ==
  /\ exPc["c1"] = "returned"
  /\ exResult["c1"].servings = Null
  /\ exResult["c1"].nutrition_ai_estimated = Bool(TRUE)
  /\ exResult["c1"].nutrition_servings_used = Num(4)
  /\ NutritionValue(exResult["c1"], "calories") # Null

(***************************************************************************)
(* Properties of validateAndNormalizeRecipe, checked on the answers the    *)
(* model service gives under SpecExtract                                   *)
(***************************************************************************)
\* the text of a raw instruction entry: the entry itself when it is a
\* string, its text property when it is an object
RawText(entry) == IF entry.t = "str" THEN entry ELSE GetOpt(entry, "text")

\* the raw entry has a text that is not empty after trimming
HasText(entry) == RawText(entry).t = "str" /\ Trim(RawText(entry).s) # <<>>

\* the primary answers of the call that parsed to a value the normalizer
\* accepted
Normalized(c) ==
  {i \in 1..Len(reqLog[c]) :
     /\ reqLog[c][i].flow = "primary"
     /\ reqLog[c][i].net = "answered"
     /\ reqLog[c][i].status = 200
     /\ reqLog[c][i].body.kind = "json"
     /\ ~NormalizeThrows(reqLog[c][i].body.data)}

RawOf(c, i) == reqLog[c][i].body.data

NormalizedOf(c, i) == validateAndNormalizeRecipe(reqLog[c][i].body.data)

\* C14: the normalized instructions are the raw entries that have a text, so
\* every entry whose text is absent, empty or only whitespace is dropped,
\* and an answer none of whose entries has a text normalizes to an empty
\* list and counts as missing instructions
C14_DropsInstructionsWithoutText ==
  \A c \in Callers :
    \A i \in Normalized(c) :
      IsArray(Get(RawOf(c, i), "instructions")) =>
        /\ Len(NormalizedOf(c, i).instructions.a) =
             Cardinality({j \in 1..Len(Get(RawOf(c, i), "instructions").a) :
                            HasText(Get(RawOf(c, i), "instructions").a[j])})
        /\ (\A j \in 1..Len(Get(RawOf(c, i), "instructions").a) :
              ~HasText(Get(RawOf(c, i), "instructions").a[j]))
             => reqLog[c][i].zeroInstructions

(***************************************************************************)
(* Properties of the normalizer functions, checked under SpecNormalize     *)
(***************************************************************************)
GenreVocabulary == {Str(GENRE_OF_FOOD_OPTIONS[i]) : i \in 1..Len(GENRE_OF_FOOD_OPTIONS)}
DishVocabulary == {Str(TYPE_OF_DISH_OPTIONS[i]) : i \in 1..Len(TYPE_OF_DISH_OPTIONS)}
MethodVocabulary == {Str(METHOD_OF_COOKING_OPTIONS[i]) : i \in 1..Len(METHOD_OF_COOKING_OPTIONS)}

DishCall == normCall.fn = "validateTypeOfDishArray"
NormalizeCall == normCall.fn = "validateAndNormalizeRecipe"

\* the positions of the input that hold a member of the dish-type vocabulary
ValidPositions(input) == {i \in 1..Len(input) : input[i] \in DishVocabulary}

\* the k-th smallest element of a finite set of numbers
RECURSIVE Nth(_, _)
Nth(S, k) ==
  LET least == CHOOSE x \in S : \A y \in S : x <= y
  IN IF k = 1 THEN least ELSE Nth(S \ {least}, k - 1)

\* C15: for every input sequence validateTypeOfDishArray returns without
\* failing; the result holds only members of the dish-type vocabulary, at
\* most 3 of them, and they are the first valid input elements in input order
C15_DishTypesFiltered ==
  DishCall =>
    /\ ~normCall.threw
    /\ Len(normCall.result.a) <= 3
    /\ Len(normCall.result.a) =
         IF Cardinality(ValidPositions(normCall.input.a)) < 3
         THEN Cardinality(ValidPositions(normCall.input.a)) ELSE 3
    /\ \A k \in 1..Len(normCall.result.a) :
         /\ normCall.result.a[k] \in DishVocabulary
         /\ normCall.result.a[k] = normCall.input.a[Nth(ValidPositions(normCall.input.a), k)]

\* five candidates, four of them valid, gave the first three valid ones
C15_Witness ==
  /\ DishCall
  /\ normCall.input = Arr(<<NotARealType, Pasta, Salad, Num(5), Bowl, Soup>>)
  /\ normCall.result = Arr(<<Pasta, Salad, Bowl>>)

\* the sequence holds no value twice
NoDuplicates(q) == \A i, j \in 1..Len(q) : q[i] = q[j] => i = j

\* C16: validateTypeOfDishArray returns no value twice: the result is the
\* first 3 distinct valid members in input order, so ["Soup",
\* "NotARealType", "Soup", "Bowl", "Salad", "Pasta"] yields ["Soup", "Bowl",
\* "Salad"]
C16_DishTypesDeduplicated ==
  DishCall =>
    /\ NoDuplicates(normCall.result.a)
    /\ normCall.input = Arr(<<Soup, NotARealType, Soup, Bowl, Salad, Pasta>>)
         => normCall.result = Arr(<<Soup, Bowl, Salad>>)

\* C17: normalization does not fail on a categorical value outside the
\* vocabularies; in the normalized recipe genreOfFood and methodOfCooking are
\* members of their vocabularies or null and every typeOfDish element is a
\* member of the dish-type vocabulary
C17_TaxonomyCoerced ==
  NormalizeCall =>
    /\ (~normCall.threw) =>
         /\ normCall.result.genreOfFood \in GenreVocabulary \cup {Null}
         /\ normCall.result.methodOfCooking \in MethodVocabulary \cup {Null}
         /\ normCall.result.typeOfDish # Null =>
              \A k \in 1..Len(normCall.result.typeOfDish.a) :
                normCall.result.typeOfDish.a[k] \in DishVocabulary
    /\ normCall.threw =>
         \/ IsNullish(normCall.input)
         \/ Get(normCall.input, "recipe_name") = Num(5)
         \/ Get(normCall.input, "ingredients") = Arr(<<Null>>)
         \/ Get(normCall.input, "instructions") = Arr(<<Null>>)

\* an unknown genre, a wrongly cased method and a dish list with an unknown
\* and a non-string entry were coerced
C17_Witness ==
  /\ NormalizeCall
  /\ ~normCall.threw
  /\ Get(normCall.input, "genreOfFood") = Str(<<"M", "a", "r", "t", "i", "a", "n">>)
  /\ Get(normCall.input, "methodOfCooking") = Str(<<"o", "v", "e", "n">>)
  /\ Get(normCall.input, "typeOfDish") = Arr(<<Num(5)>>)
  /\ normCall.result.genreOfFood = Null
  /\ normCall.result.methodOfCooking = Null
  /\ normCall.result.typeOfDish = Arr(<<>>)

\* null or a non-negative integer
NonNegativeIntegerOrNull(v) == v = Null \/ (v.t = "num" /\ ~v.half /\ v.v >= 0)

\* C18: in every normalized recipe servings, prep_time_minutes and
\* cook_time_minutes are each null or a non-negative integer
C18_CountsNonNegative ==
  (NormalizeCall /\ ~normCall.threw) =>
    /\ NonNegativeIntegerOrNull(normCall.result.servings)
    /\ NonNegativeIntegerOrNull(normCall.result.prep_time_minutes)
    /\ NonNegativeIntegerOrNull(normCall.result.cook_time_minutes)

\* C19: validateAndNormalizeRecipe never throws, whatever parsed JSON value
\* it is given
C19_NormalizeNeverThrows == NormalizeCall => ~normCall.threw

(***************************************************************************)
(* Serving count assumed for the estimate (checked under SpecExtract)      *)
(***************************************************************************)
\* the servings value of the answer the recipe of the call was normalized
\* from
SourceServings(c) ==
  Get(RawOf(c, CHOOSE i \in Normalized(c) : \A j \in Normalized(c) : j <= i), "servings")

\* the serving count the estimate assumes for the recipe of the call
AssumedServings(c) == ServingsNumber(ServingsUsed(exRecipe[c]))

\* the serving count stated for a source servings value: the rounded average
\* of a range, the number itself, the default otherwise
StatedServings(v) ==
  CASE v = Str(<<"4", "-", "6">>) -> Num(5)
    [] v = Str(<<"4", " ", "t", "o", " ", "6">>) -> Num(5)
    [] v = Str(<<"4">>) -> Num(4)
    [] IsNumber(v) -> v
    [] OTHER -> Num(DefaultServings)

\* C20: while the nutrition of a recipe is estimated the serving count
\* assumed is 5 for source servings "4-6" or "4 to 6", 4 for "4" and the
\* default 4 for null or text without a number, and the servings field of
\* the recipe is the normalized one, not the assumed count
C20_ServingRangeParsing ==
  \A c \in Callers :
    exPc[c] = "nutrition" =>
      /\ AssumedServings(c) = StatedServings(SourceServings(c))
      /\ exRecipe[c].servings = NumberOrNull(SourceServings(c))

(***************************************************************************)
(* Title case (checked under SpecNormalize)                                *)
(***************************************************************************)
\* strictly more than half of the letters of s are capitals
MostlyCapitals(s) ==
  2 * Cardinality({i \in 1..Len(s) : IsUpperChar(s[i])})
    > Cardinality({i \in 1..Len(s) : IsLetter(s[i])})

\* s with the first character of each space-separated token upper-cased and
\* every other character lower-cased
TitleCased(s) ==
  [i \in 1..Len(s) |->
     IF i = 1 \/ s[i - 1] = " " THEN CharToUpper(CharToLower(s[i])) ELSE CharToLower(s[i])]

StatedTitle(s) == IF MostlyCapitals(s) THEN TitleCased(s) ELSE s

\* the text of the call's input that toTitleCase receives as recipe_name
GivenName == OrElse(Get(normCall.input, "recipe_name"), Str(UntitledRecipe)).s

\* the text of the call's input that toTitleCase receives as author
GivenAuthor == Trim(JSString(Get(normCall.input, "author")))

\* C21: the normalized recipe_name and author are the given text in title
\* case exactly when strictly more than half of its letters are capitals,
\* and the given text unchanged otherwise
C21_TitleCaseRule ==
  (NormalizeCall /\ ~normCall.threw) =>
    /\ normCall.result.recipe_name = Str(StatedTitle(GivenName))
    /\ (Truthy(Get(normCall.input, "author")) /\ GivenAuthor # <<>>)
         => normCall.result.author = Str(StatedTitle(GivenAuthor))

\* "CHICKEN soup" was normalized to "Chicken Soup"
C21_Witness ==
  /\ NormalizeCall
  /\ Get(normCall.input, "recipe_name") = Str(ChickenSoupHalf)
  /\ normCall.result.recipe_name = Str(ChickenSoupMixed)

(***************************************************************************)
(* Recipe routes (checked under SpecRecipes)                               *)
(***************************************************************************)
\* the request body key a stored field is written from
BodyKey(f) == IF f = "nutrition_ai_estimated" THEN "nutrition" ELSE f

\* the step is a PUT of the session's own recipe id with the body
UpdatesOwn(session, id, body) == RecipePut(session, id, body) /\ OwnRows(id, session) # {}

\* the row with the id after the step
RowAfter(id) == CHOOSE row \in store' : row.id = id

\* C22: after a PUT every stored field for which the body gives no value
\* (nutrition_ai_estimated: no nutrition) holds the value it held before
C22_PutKeepsOmittedFields ==
  [][\A session \in Users, id \in 1..MaxRows, body \in PutBodies :
       UpdatesOwn(session, id, body) =>
         \A row \in OwnRows(id, session) :
           \A f \in DOMAIN row :
             Get(body, BodyKey(f)) = Undefined => RowAfter(id)[f] = row[f]]_vars

\* the fields of a recipe that a request may leave out
OptionalFields ==
  {"author", "description", "link", "servings", "prep_time_minutes", "cook_time_minutes",
   "ingredients", "instructions", "nutrition", "genreOfFood", "typeOfDish",
   "methodOfCooking", "image", "userNotes", "authorsNotes", "originalFile",
   "originalFileName", "originalFileType"}

\* the body gives the field as null, as an empty text or as an empty list
GivenEmpty(body, f) == Get(body, f) \in {Null, Str(<<>>), Arr(<<>>)}

\* the stored value is null or an empty list
IsCleared(v) == v \in {Null, JSONstringify(Arr(<<>>))}

\* C23: after a PUT every optional field the body gives as null or empty is
\* cleared in the stored recipe
C23_PutClearsEmptyFields ==
  [][\A session \in Users, id \in 1..MaxRows, body \in PutBodies :
       UpdatesOwn(session, id, body) =>
         \A f \in OptionalFields : GivenEmpty(body, f) => IsCleared(RowAfter(id)[f])]_vars

\* the step is a request of the session to one of the recipe routes
RouteStep(session) ==
  \/ RecipeList(session)
  \/ \E body \in RecipeBodies : RecipePost(session, body)
  \/ \E id \in 1..MaxRows : RecipeGet(session, id)
  \/ \E id \in 1..MaxRows, body \in PutBodies : RecipePut(session, id, body)
  \/ \E id \in 1..MaxRows : RecipeDelete(session, id)

\* the step is a request of the session for the recipe id, to read, update
\* or delete it
RecipeStep(session, id) ==
  \/ RecipeGet(session, id)
  \/ \E body \in PutBodies : RecipePut(session, id, body)
  \/ RecipeDelete(session, id)

\* C24: a request to a recipe route is answered only with recipes of the
\* caller and leaves every recipe of another user as it was; a request for
\* the recipe of another user is answered 404 and a request without a
\* session 401, both without a change of the store
C24_RecipesScopedToOwner ==
  [][/\ \A session \in Sessions :
          RouteStep(session) =>
            /\ \A shown \in lastRows' : shown.userId = session
            /\ \A row \in store : row.userId # session => row \in store'
            /\ session = NoUser => (lastStatus' = 401 /\ store' = store)
     /\ \A session \in Users, id \in 1..MaxRows :
          (RecipeStep(session, id) /\ \E row \in store : row.id = id /\ row.userId # session)
            => (lastStatus' = 404 /\ store' = store /\ lastRows' = {})]_vars

\* both users own a recipe and the last response, a list, held the recipe
\* of the second user alone
C24_Witness ==
  /\ \E row \in store : row.userId = "u1"
  /\ \E row \in store : row.userId = "u2"
  /\ lastStatus = 200
  /\ lastRows = {ListedRecipe(row) : row \in {w \in store : w.userId = "u2"}}

(***************************************************************************)
(* Debug scans and the cache (checked under SpecScan)                      *)
(***************************************************************************)
\* the request of the caller is a debug scan of a file whose hash had a
\* cache entry when the route looked it up
DebugOnCached(c) ==
  /\ scanReq[c] # Null
  /\ scanReq[c].debug
  /\ scanCached[c] # Null

\* the step ends the extraction of the caller's scan with a recipe
ExtractionDone(c) ==
  /\ scanPc[c] = "extracting"
  /\ scanPc'[c] = "responded"
  /\ exPc[c] = "returned"

\* C25: a debug scan of a file that has a cache entry is not answered from
\* the cache but by an extraction, and when that extraction ends while the
\* hash still has an entry a lookup of the hash returns what it returned
\* before
C25_DebugScanKeepsCacheEntry ==
  [][\A c \in Callers :
       /\ (DebugOnCached(c)' /\ scanPc[c] = "idle" /\ apiKeySet)
            => (scanPc'[c] = "extracting" /\ exPc'[c] # "idle")
       /\ (DebugOnCached(c) /\ ExtractionDone(c)
             /\ \E row \in store : row.fileHash = scanReq[c].fileHash)
            => getCachedRecipe(store', scanReq[c].fileHash, TRUE)
                 = getCachedRecipe(store, scanReq[c].fileHash, TRUE)]_vars

(***************************************************************************)
(* Concurrent scans of one content hash (checked under SpecRace)           *)
(***************************************************************************)
\* C26: whatever the other caller has done to the table, a scan whose
\* extraction returned answers with that recipe and a scan that found an
\* entry answers with it; a cache write of one caller removes no row and
\* makes every later lookup of the hash a hit
C26_ConcurrentScansTolerated ==
  [][\A c \in Callers :
       /\ ExtractionDone(c) => scanResp'[c] = Response(200, TRUE, FALSE, exResult[c], <<>>, <<>>)
       /\ CacheHitStep(c) => scanResp'[c] = Response(200, TRUE, TRUE, scanCached'[c], <<>>, <<>>)
       /\ (ExtractionDone(c) /\ store' # store) =>
            /\ store \subseteq store'
            /\ Null \notin getCachedRecipe(store', scanReq[c].fileHash, TRUE)
       /\ (\E row \in store : row.fileHash = Hash1) => (\E row \in store' : row.fileHash = Hash1)]_vars

\* both callers found no entry, both extracted, both wrote a row for the
\* hash and both were answered with their own extraction
C26_Witness ==
  /\ \A c \in Callers :
       /\ scanPc[c] = "responded"
       /\ scanCached[c] = Null
       /\ scanResp[c].success
       /\ ~scanResp[c].cached
  /\ Cardinality({row \in store : row.fileHash = Hash1}) = 2

(***************************************************************************)
(* When the scan route writes to the cache (checked under SpecScan)        *)
(***************************************************************************)
\* C27: a step of a scan request changes the table only when it ends an
\* extraction that returned a recipe, and the row it then adds is keyed by
\* the hash of the scanned file and holds at least one instruction; a
\* request that is rejected or whose extraction throws writes nothing
C27_CacheWrittenAfterExtraction ==
  [][\A c \in Callers :
       scanPc'[c] # scanPc[c] =>
         IF ExtractionDone(c)
         THEN /\ store \subseteq store'
              /\ \A row \in store' \ store :
                   /\ row.fileHash = scanReq[c].fileHash
                   /\ Len(JSONparse(row.instructions).a) >= 1
         ELSE store' = store]_vars

\* a scan has extracted a recipe and written its row
C27_Witness ==
  /\ scanPc["c1"] = "responded"
  /\ scanResp["c1"].success
  /\ ~scanResp["c1"].cached
  /\ \E row \in store :
       /\ row.id = nextId - 1
       /\ row.fileHash = scanReq["c1"].fileHash
       /\ JSONparse(row.instructions) = exResult["c1"].instructions
       /\ Len(JSONparse(row.instructions).a) >= 1

(***************************************************************************)
(* Step numbers (checked under SpecNormalize)                              *)
(***************************************************************************)
\* the instructions of the call's input, when they are a list
GivenSteps == Get(normCall.input, "instructions")

\* no entry of the given instructions has a step number
NoStepNumbers ==
  \A j \in 1..Len(GivenSteps.a) : ~IsNumber(GetOpt(GivenSteps.a[j], "step_number"))

PositiveInteger(v) == v.t = "num" /\ ~v.half /\ v.v >= 1

\* C28: in a normalized recipe every step_number is a positive integer, and
\* when no given entry has a step number the instructions kept are numbered
\* 1, 2, ..., n in their order
C28_StepNumbers ==
  (NormalizeCall /\ ~normCall.threw) =>
    LET steps == normCall.result.instructions.a
    IN /\ \A i \in 1..Len(steps) : PositiveInteger(Get(steps[i], "step_number"))
       /\ (IsArray(GivenSteps) /\ NoStepNumbers)
            => \A i \in 1..Len(steps) : Get(steps[i], "step_number") = Num(i)

(***************************************************************************)
(* Requests sent by one call (checked under SpecExtract)                   *)
(***************************************************************************)
RequestsOf(c, flow) == {i \in 1..Len(reqLog[c]) : reqLog[c][i].flow = flow}

\* the last primary request the call sent before its request j
PrimaryBefore(c, j) ==
  CHOOSE i \in RequestsOf(c, "primary") :
    i < j /\ \A k \in RequestsOf(c, "primary") : k < j => k <= i

\* C29: a call sends at most 4 primary requests and at most 2 nutrition
\* requests; a nutrition request follows a primary answer of the same
\* attempt that normalized to a recipe with an instruction, and no primary
\* request follows a nutrition request
C29_RequestBudget ==
  \A c \in Callers :
    /\ Cardinality(RequestsOf(c, "primary")) <= 4
    /\ Cardinality(RequestsOf(c, "nutrition")) <= 2
    /\ \A j \in RequestsOf(c, "nutrition") :
         /\ \E i \in RequestsOf(c, "primary") : i < j
         /\ PrimaryBefore(c, j) \in Normalized(c)
         /\ reqLog[c][PrimaryBefore(c, j)].attempt = reqLog[c][j].attempt
         /\ ~InstructionsMissing(NormalizedOf(c, PrimaryBefore(c, j)))
         /\ \A k \in RequestsOf(c, "primary") : k < j

\* a call that sent 4 primary requests and then 2 nutrition requests has
\* returned
C29_Witness ==
  /\ exPc["c1"] = "returned"
  /\ Cardinality(RequestsOf("c1", "primary")) = 4
  /\ Cardinality(RequestsOf("c1", "nutrition")) = 2

(***************************************************************************)
(* Bulk upload (checked under SpecBulk)                                    *)
(***************************************************************************)
\* the entry at position k of recipes belongs to the k-th selected file
EntryOfFile(k) ==
  /\ bulk.recipes[k].id = RecipeId(k - 1)
  /\ bulk.recipes[k].originalName = bulk.files[k]
  /\ bulk.recipes[k].scanned = (bulk.recipes[k].error = "")

\* the step ends the handling of a file
FileHandled == bulk'.i # bulk.i /\ bulk.isProcessing

\* C30: the files are handled one at a time in selection order; each
\* handled file, whichever of its steps failed, adds exactly one entry at
\* the end of recipes and the loop goes on to the next file; recipes holds
\* one entry per handled file in selection order, and one per selected file
\* when processing has ended
C30_BulkOneEntryPerFile ==
  /\ [](/\ Len(bulk.recipes) = bulk.i
        /\ \A k \in 1..Len(bulk.recipes) : EntryOfFile(k)
        /\ bulk.isProcessing = (bulk.i < Len(bulk.files))
        /\ ~bulk.isProcessing => Len(bulk.recipes) = Len(bulk.files))
  /\ [][FileHandled =>
          /\ bulk'.i = bulk.i + 1
          /\ Len(bulk'.recipes) = Len(bulk.recipes) + 1
          /\ SubSeq(bulk'.recipes, 1, Len(bulk.recipes)) = bulk.recipes
          /\ bulk'.files = bulk.files]_vars

\* three files were selected, the first failed at the upload, the second at
\* the scan, the third was scanned, and processing has ended
C30_Witness ==
  /\ ~bulk.isProcessing
  /\ Len(bulk.files) = 3
  /\ Len(bulk.recipes) = 3
  /\ bulk.recipes[1].error = "Upload failed"
  /\ bulk.recipes[2].error = "Scan failed"
  /\ bulk.recipes[3].scanned

====
